---- MODULE Spec2Model ----
(***************************************************************************)
(* A model of the research orchestration engine of general_researcher:     *)
(* the feedback patterns (Researcher-Critic, Multi-Agent, Supervisor-      *)
(* Worker, Plan-and-Execute), the Hybrid P2P pattern, and the tool-call    *)
(* loop of FoundryAgentManager.run_agent.                                  *)
(*                                                                         *)
(* Texts returned by the generation backend are abstract: a response text  *)
(* is named by the invocation that produced it, a critic text is a record  *)
(* that says how json.loads and the field accesses of the orchestrators    *)
(* see it. Quality scores are in tenths (0.7 is 7).                        *)
(***************************************************************************)
EXTENDS Integers, Sequences, FiniteSets, TLC



\* ------------------------------------------------------------------ bounds

\* Number of data sources (and so of Source-Workers).
NumSources == 2
\* Largest number of tool calls one backend response requests.
MaxCalls == 2
\* Largest number of documents one search returns.
MaxDocs == 1
\* Largest number of searches made during one research().
MaxSearches == 1
\* Largest number of research() calls on one orchestrator.
MaxRuns == 2
\* Number of orchestrators that share one manager.
MaxOwners == 2
\* Largest number of agents a manager tracks.
MaxAgents == 2
\* Largest number of cleanup calls made in the body of a manager's with block.
MaxCleanups == 1
\* Number of threads that share one ToolCallStats.
MaxThreads == 2
\* Largest number of record() and reset() calls the threads make in all.
MaxOps == 3

\* The scenarios of one run_all call.
MaxScenarios == 2
\* Largest number of search calls and tracker resets of the search
\* specification.
MaxToolCalls == 3

Sources == 1..NumSources

\* A response text of the backend, named by the invocation that produced it:
\* the n-th response of a role (of the Source-Worker of source src). Two
\* invocations never share a text, so a text found in a prompt or in the
\* result tells which invocation it came from.
Txt(role, n, src) == [role |-> role, n |-> n, src |-> src]

\* The empty string.
NoText == Txt("none", 0, 0)

\* --------------------------------------------------------- program constants

QUALITY_THRESHOLD == 7
MAX_ITERATIONS == 3
APPROVAL_THRESHOLD == 7
MA_MAX_ROUNDS == 3
SW_MAX_ROUNDS == 3
SW_THRESHOLD == 7
MAX_REPLANS == 2
PE_THRESHOLD == 7
HP_MAX_ROUNDS == 2
max_rounds == 10

\* ------------------------------------------------------------- critic texts

\* The numeric quality scores the critic may report, in tenths.
Scores == {0, 6, 7, 10}

\* How the "quality_score" member of a critique object looks to float():
\* absent, JSON null, a non-numeric string, the literal NaN, or a number.
QsKinds == {"missing", "null", "text", "nan", "num"}

\* "is_sufficient": absent, true or false.
SuffKinds == {"missing", "true", "false"}

\* "gaps" / "suggestions": absent, a list of strings, or JSON null.
ListKinds == {"missing", "strings", "null"}

\* A critic text. kind "invalid": json.loads raises JSONDecodeError;
\* "nonobject": valid JSON that is an array, string, number or null;
\* "object": a JSON object with the members below.
NonObjects ==
    {[kind |-> k, qs |-> "missing", qv |-> 0, suff |-> "missing",
      gaps |-> "missing", sugg |-> "missing"] : k \in {"invalid", "nonobject"}}

Objects ==
    {[kind |-> "object", qs |-> q, qv |-> 0, suff |-> s, gaps |-> g, sugg |-> u] :
        q \in QsKinds \ {"num"}, s \in SuffKinds, g \in ListKinds, u \in ListKinds}
    \cup
    {[kind |-> "object", qs |-> "num", qv |-> n, suff |-> s, gaps |-> g, sugg |-> u] :
        n \in Scores, s \in SuffKinds, g \in ListKinds, u \in ListKinds}

CriticTexts == NonObjects \cup Objects

NoCritique ==
    [kind |-> "none", qs |-> "missing", qv |-> 0, suff |-> "missing",
     gaps |-> "missing", sugg |-> "missing"]

\* ------------------------------------------------------------- worker texts

\* A Source-Worker text as Hybrid P2P reads it: not JSON, JSON that is not an
\* object, or an object whose "key_discoveries" is absent, a list of strings
\* or JSON null.
WorkerTexts ==
    {[kind |-> k, kd |-> "missing"] : k \in {"invalid", "nonobject"}}
    \cup {[kind |-> "object", kd |-> d] : d \in ListKinds}

NoWorkerText == [kind |-> "none", kd |-> "missing"]

\* ------------------------------------------------------------------- state

VARIABLES
    arch,            \* the pattern under execution: "rc", "ma", "sw", "pe"
    data_sources,    \* the data sources in registration order
    pc,              \* position of research(): the role invoked next, "done", "raised"
    rnd,             \* iterations / rounds / attempt + 1 of the running loop
    research_output, \* answer (rc) / research_output (ma, pe)
    feedback,        \* critique_feedback / gaps_feedback, NoText for ""
    plan,            \* plan_response (sw) / plan_text (pe)
    widx,            \* position of the worker loop in self.workers
    round_findings,  \* sw: round_findings
    all_findings,    \* sw: all_findings, as the list of the texts joined
    replans,         \* pe: replans
    critique,        \* the text of the last Critic response
    calls,           \* the run_agent invocations made so far, in order
    result,          \* the ResearchResult returned, or NoResult
    exc,             \* the exception that left research(), or "none"
    all_discoveries, \* hybrid: all_discoveries, source -> discoveries
    peer_context,    \* hybrid: whether peer_context is a non-empty string
    worker_text,     \* hybrid: the text of the last Source-Worker response
    reported,        \* hybrid: <<round, source>> -> the discoveries parsed
                     \* from that worker's text of that round (history)
    ag_pc,           \* run_agent: "idle", "tools", "backend", "returned"
    tool_set,        \* run_agent: the tool_set argument (name -> function)
    tool_dispatch,   \* the manager's _tool_dispatch (name -> function)
    response,        \* run_agent: the last backend response
    round_num,       \* run_agent: tool-dispatch rounds completed
    tool_results,    \* run_agent: the outputs of the last dispatch round
    executed,        \* the call_ids whose function ran in that round (history)
    backend_calls,   \* the responses.create calls made so far (history)
    run_result,      \* the RunResult returned, or NoRunResult
    st_arch,         \* stats: the pattern of the orchestrator
    st_pc,           \* stats: "new", "running", "returned", "raised"
    documents_retrieved, \* stats: tracker -> its documents_retrieved
    lists,           \* stats: the list objects (reference -> contents)
    slot,            \* stats: tracker -> where its next reset puts its copy
    last_reset,      \* stats: what the last reset() returned
    made,            \* stats: the tool calls made in this research() (history)
    st_result,       \* stats: the counts of the ResearchResult returned
    st_runs,         \* stats: research() calls started so far
    st_calls,        \* stats: tool calls made in this research()
    lock,            \* threads: the thread holding self._lock, or 0
    th_pc,           \* threads: thread -> its position in record()/reset()
    th_local,        \* threads: thread -> the locals of its call
    tr_docs,         \* threads: self.documents_retrieved
    tr_sources,      \* threads: self.sources_called
    ops_done,        \* threads: record()/reset() calls completed
    recorded_total,  \* threads: documents passed to completed record() (history)
    returned_total,  \* threads: documents returned by completed reset() (history)
    unreturned,      \* threads: names recorded since the last reset() (history)
    last_ret,        \* threads: the list the last reset() returned (history)
    first_fn,        \* dispatch: name -> the first function registered (history)
    looked,          \* dispatch: the last lookup of _call_tool_function
    dp_runs,         \* dispatch: run_agent calls made on the manager
    dp_recorded,     \* dispatch: the record() calls the dispatched searches
                     \* made: tracker, orchestrator running, name (history)
    mg_pc,           \* manager: "body" inside the with block, "left", "raised"
    mg_keep,         \* manager: self.keep_agents
    mg_created,      \* manager: self._created_agents
    mg_log,          \* manager: the cleanup() calls made (history)
    ra_pc,           \* run_architecture: position of the function
    ra_arch,         \* run_architecture: arch_key
    ra_mode,         \* run_architecture: "eval" if eval_mode else "query"
    ra_files,        \* run_architecture: the status files in output_dir
    ra_ret,          \* run_architecture: the dict returned
    ev_scenarios,    \* runner: the scenarios run_all was called with
    ev_pc,           \* runner: position of run_all: "run_all", "scoring", ...
    ev_results,      \* runner: results, the list run_all builds
    ev_steps,        \* runner: step_results of the scenario being scored
    ev_output,       \* runner: the ResearchOutput of the scenario being scored
    ev_researched,   \* runner: ids of the scenarios research() was called for
    ev_judge,        \* runner: self.llm_judge
    ev_azure,        \* runner: self.azure_evaluators
    ms_pc,           \* match_step: "call", "returned", "raised"
    ms_assertion,    \* match_step: the assertion text
    ms_args,         \* match_step: the extra arguments of the assertion
    ms_ret,          \* match_step: what the call returned or raised
    sr_steps,        \* scoring: ScenarioResult.steps
    sr_props,        \* scoring: the values its properties were read as
    sm_results,      \* summary: the results print_summary and save_results get
    sm_printed,      \* summary: the figures print_summary printed
    sm_saved,        \* summary: the "summary" dict save_results wrote
    cl_ret,          \* check_latency: the dict the call returned
    ci_arch,         \* citations: the pattern whose research() returns
    ci_tokens,       \* citations: the pieces the final answer is made of
    ci_answer,       \* citations: answer, the final answer of the pattern
    ci_findings,     \* citations: the findings the final answer was made from
    ci_result,       \* citations: the ResearchResult research() returned
    ci_again         \* citations: extract_citations of the rebuilt text

orchVars == <<arch, data_sources, pc, rnd, research_output, feedback, plan, widx,
              round_findings, all_findings, replans, critique, calls, result, exc>>

\* The variables only the Hybrid P2P pattern uses (it also uses all_findings,
\* as a dict from source to text).
hpOnly == <<all_discoveries, peer_context, worker_text, reported>>

\* The variables of FoundryAgentManager.run_agent.
agentVars == <<ag_pc, tool_set, tool_dispatch, response, round_num,
               tool_results, executed, backend_calls, run_result>>

\* The variables of the stats trackers of one orchestrator.
statsVars == <<st_arch, st_pc, documents_retrieved, lists, slot, last_reset,
               made, st_result, st_runs, st_calls>>

\* The variables of the threads that share one ToolCallStats.
thrVars == <<lock, th_pc, th_local, tr_docs, tr_sources, ops_done,
             recorded_total, returned_total, unreturned, last_ret>>

\* The variables of the agents a manager tracks and of run_architecture,
\* which owns the manager.
runVars ==
    <<mg_pc, mg_keep, mg_created, mg_log, ra_pc, ra_arch, ra_mode, ra_files,
      ra_ret>>

\* The variables of a manager shared by several orchestrators, and those of
\* its other uses.
dispVars == <<first_fn, looked, dp_runs, dp_recorded, runVars>>

\* The variables of the evaluation runner and of match_step.
\* The variables of ScenarioResult's properties, of the summaries and of
\* check_latency.
scoreVars == <<sr_steps, sr_props, sm_results, sm_printed, sm_saved, cl_ret>>

\* The variables of the lines of research() that build the citation list.
citeVars == <<ci_arch, ci_tokens, ci_answer, ci_findings, ci_result, ci_again>>

\* The variables of the evaluation package.
evalVars == <<ev_scenarios, ev_pc, ev_results, ev_steps, ev_output,
              ev_researched, ev_judge, ev_azure, ms_pc, ms_assertion, ms_args,
              ms_ret, scoreVars, citeVars>>

\* The variables outside the orchestrators and run_agent.
extraVars == <<statsVars, thrVars, dispVars, evalVars>>

\* The variables outside the feedback patterns.
beyondOrch == <<hpOnly, agentVars, extraVars>>

vars == <<orchVars, hpOnly, agentVars, extraVars>>

\* The stats variables of a specification that tracks no statistics.
StatsIdle ==
    /\ st_arch = "none"
    /\ st_pc = "new"
    /\ documents_retrieved = <<>>
    /\ lists = <<>>
    /\ slot = <<>>
    /\ last_reset = <<>>
    /\ made = <<>>
    /\ st_result = <<>>
    /\ st_runs = 0
    /\ st_calls = 0

\* The thread variables of a specification without threads.
ThreadsIdle ==
    /\ lock = 0
    /\ th_pc = <<>>
    /\ th_local = <<>>
    /\ tr_docs = 0
    /\ tr_sources = <<>>
    /\ ops_done = 0
    /\ recorded_total = 0
    /\ returned_total = 0
    /\ unreturned = {}
    /\ last_ret = <<>>

\* The dispatch variables of a specification without a shared manager.
\* The variables of a specification in which no manager is used as a
\* context and run_architecture is not called.
RunIdle ==
    /\ mg_pc = "none"
    /\ mg_keep = FALSE
    /\ mg_created = <<>>
    /\ mg_log = <<>>
    /\ ra_pc = "none"
    /\ ra_arch = "none"
    /\ ra_mode = "none"
    /\ ra_files = {}
    /\ ra_ret = "none"

DispatchIdle ==
    /\ first_fn = <<>>
    /\ looked = <<>>
    /\ dp_runs = 0
    /\ dp_recorded = {}
    /\ RunIdle

\* The runner variables of a specification that runs no scenario.
RunnerIdle ==
    /\ ev_scenarios = <<>>
    /\ ev_pc = "none"
    /\ ev_results = <<>>
    /\ ev_steps = <<>>
    /\ ev_researched = <<>>

\* The match_step variables of a specification that calls it through the
\* runner only, or not at all.
StepsIdle ==
    /\ ms_pc = "none"
    /\ ms_assertion = <<>>
    /\ ms_args = <<>>
    /\ ms_ret = <<>>

\* The scoring and summary variables of a specification that reads no
\* ScenarioResult property and writes no summary.
ScoreIdle ==
    /\ sr_steps = <<>>
    /\ sr_props = <<>>
    /\ sm_results = <<>>
    /\ sm_printed = <<>>
    /\ sm_saved = <<>>
    /\ cl_ret = <<>>

\* The citation variables of a specification that builds no citation list.
CiteIdle ==
    /\ ci_arch = "none"
    /\ ci_tokens = <<>>
    /\ ci_answer = <<>>
    /\ ci_findings = <<>>
    /\ ci_result = <<>>
    /\ ci_again = <<>>

\* The evaluation variables of a specification without evaluation.
EvalIdle ==
    /\ RunnerIdle
    /\ StepsIdle
    /\ ScoreIdle
    /\ CiteIdle
    /\ ev_output = <<>>
    /\ ev_judge = <<>>
    /\ ev_azure = <<>>

\* The variables outside the orchestrators and run_agent are not in use.
ExtraIdle ==
    /\ StatsIdle
    /\ ThreadsIdle
    /\ DispatchIdle
    /\ EvalIdle

\* ----------------------------------------------------- run_agent: its data

\* tool_set=None, and the empty dict.
NoToolSet == [none |-> TRUE]
NoFunctions == <<>>

\* The FunctionTool sets run_agent is given: tool_set._functions maps the
\* tool name to a function (named by a number).
ToolSets == {NoToolSet, [search |-> 1]}

\* A tool call of a response, without its call_id: the function name, how
\* json.loads sees the arguments ("object", "array": JSON that is no object,
\* "invalid": not JSON) and what the function does when it is called ("str":
\* returns a string, "raise": raises).
CallShapes ==
    {[name |-> "search", arguments |-> "object", does |-> d] :
        d \in {"str", "raise"}}
    \cup {[name |-> "unknown", arguments |-> "object", does |-> "str"]}
    \cup {[name |-> "search", arguments |-> a, does |-> "str"] :
        a \in {"invalid", "array"}}

\* The tool calls one response may request.
CallLists == UNION {[1..n -> CallShapes] : n \in 0..MaxCalls}

\* The response with identity id: its function calls, each given a call_id,
\* and whether its output holds a message (whose text is named by id).
BackendResponse(id, shapes, message) ==
    [id |-> id,
     fn_calls |-> [i \in DOMAIN shapes |->
                    [name |-> shapes[i].name, arguments |-> shapes[i].arguments,
                     does |-> shapes[i].does, call_id |-> <<id, i>>]],
     message |-> message]

NoResponse == [id |-> 0, fn_calls |-> <<>>, message |-> FALSE]

NoRunResult == [text |-> 0, returned |-> FALSE]

\* The agent variables of a specification that does not run run_agent.
AgentIdle ==
    /\ ag_pc = "idle"
    /\ tool_set = NoToolSet
    /\ tool_dispatch = NoFunctions
    /\ response = NoResponse
    /\ round_num = 0
    /\ tool_results = <<>>
    /\ executed = <<>>
    /\ backend_calls = 0
    /\ run_result = NoRunResult

Archs == {"single", "rc", "ma", "sw", "pe"}

\* The orders in which the data sources can have been registered.
Registrations ==
    {s \in [Sources -> Sources] : \A i, j \in Sources : i # j => s[i] # s[j]}

\* self.workers: one Source-Worker per data source, in registration order.
\* A variant of Workers that builds the workers in reverse order.
WorkersReversed ==
    [i \in 1..Len(data_sources) |-> data_sources[Len(data_sources) + 1 - i]]

Workers == data_sources

NoResult ==
    [answer |-> NoText, count |-> 0, worker_count |-> 0, returned |-> FALSE]

\* The ResearchResult research() returns; count is the pattern's metadata
\* counter (iterations, rounds or replans).
ResearchResult(a, n, w) ==
    [answer |-> a, count |-> n, worker_count |-> w, returned |-> TRUE]

\* The number of run_agent invocations of a role (and source) made so far.
Invoked(role, src) ==
    Cardinality({i \in DOMAIN calls : calls[i].role = role /\ calls[i].src = src})

\* The text the next invocation of a role returns.
Response(role, src) == Txt(role, Invoked(role, src) + 1, src)

\* One run_agent invocation: the role, the loop counter when it was made, the
\* source of a Source-Worker (0 otherwise), the texts its prompt holds besides
\* the query, and the text returned.
Call(role, src, uses) ==
    [role |-> role, rnd |-> rnd, src |-> src, uses |-> uses,
     out |-> Response(role, src)]

\* The texts joined into a string.
Joined(texts) == {texts[i] : i \in DOMAIN texts}

\* ------------------------------------------------------- parsing a critique

\* A variant of JsonLoads that reads a text that is not JSON as an empty
\* object.
JsonLoadsLenient(c) ==
    IF c.kind = "nonobject" THEN "AttributeError" ELSE "ok"

\* json.loads(text) followed by eval_data.get(...): JSONDecodeError for text
\* that is not JSON, AttributeError for JSON that is not an object.
JsonLoads(c) ==
    CASE c.kind = "invalid" -> "JSONDecodeError"
      [] c.kind = "nonobject" -> "AttributeError"
      [] OTHER -> "ok"

\* float(eval_data.get("quality_score", default)).
FloatScore(c, default) ==
    CASE c.qs = "missing" -> [st |-> "ok", nan |-> FALSE, v |-> default]
      [] c.qs = "null" -> [st |-> "TypeError", nan |-> FALSE, v |-> 0]
      [] c.qs = "text" -> [st |-> "ValueError", nan |-> FALSE, v |-> 0]
      [] c.qs = "nan" -> [st |-> "ok", nan |-> TRUE, v |-> 0]
      [] OTHER -> [st |-> "ok", nan |-> FALSE, v |-> c.qv]

\* eval_data.get("is_sufficient", default), as a truth value.
GetSufficient(c, default) ==
    CASE c.suff = "missing" -> default
      [] c.suff = "true" -> TRUE
      [] OTHER -> FALSE

\* score >= threshold on floats: false for NaN.
ScoreGE(s, threshold) == ~s.nan /\ s.v >= threshold

\* The try block of a feedback loop: "ok" with the score and the flag,
\* "caught" when the except clause (JSONDecodeError, ValueError) takes it,
\* or the exception that propagates.
ParseCritique(c, defScore, defSuff) ==
    LET j == JsonLoads(c)
        s == FloatScore(c, defScore)
    IN  CASE j = "JSONDecodeError" ->
               [st |-> "caught", score |-> s, suff |-> FALSE]
          [] j = "AttributeError" ->
               [st |-> "AttributeError", score |-> s, suff |-> FALSE]
          [] s.st = "ValueError" ->
               [st |-> "caught", score |-> s, suff |-> FALSE]
          [] s.st = "TypeError" ->
               [st |-> "TypeError", score |-> s, suff |-> FALSE]
          [] OTHER ->
               [st |-> "ok", score |-> s, suff |-> GetSufficient(c, defSuff)]

\* ', '.join(x) for x = eval_data.get("gaps", []): TypeError unless x is a
\* list of strings.
JoinOk(k) == k \in {"missing", "strings"}

\* The f-string that builds critique_feedback / gaps_feedback.
FormatFeedback(c) ==
    IF JoinOk(c.gaps) /\ JoinOk(c.sugg) THEN "ok" ELSE "TypeError"

\* What the rest of a loop body does once the Critic returned c in round r
\* of at most maxRounds: the exception that propagates, "break", "continue"
\* (start round r + 1) or "exhausted" (the body ends and the range is used
\* up). withFeedback: the body formats feedback from the critique
\* (Researcher-Critic, Multi-Agent).
LoopDecision(c, r, threshold, maxRounds, defScore, defSuff, withFeedback) ==
    LET p == ParseCritique(c, defScore, defSuff)
    IN  CASE p.st \in {"AttributeError", "TypeError"} -> p.st
          [] p.st = "caught" -> "break"
          [] ScoreGE(p.score, threshold) \/ p.suff -> "break"
          [] withFeedback /\ FormatFeedback(c) = "TypeError" -> "TypeError"
          [] r < maxRounds -> "continue"
          [] OTHER -> "exhausted"

\* ------------------------------------------------------------ Single Agent

SingleStart ==
    /\ arch = "single" /\ pc = "idle"
    /\ pc' = "researcher"
    /\ UNCHANGED <<arch, data_sources, rnd, research_output, feedback, plan,
                   widx, round_findings, all_findings, replans, critique, calls,
                   result, exc>>
    /\ UNCHANGED beyondOrch

SingleResearcher ==
    /\ arch = "single" /\ pc = "researcher"
    /\ calls' = Append(calls, Call("researcher", 0, {}))
    /\ research_output' = Response("researcher", 0)
    /\ result' = ResearchResult(Response("researcher", 0), 0, 0)
    /\ pc' = "done"
    /\ UNCHANGED <<arch, data_sources, rnd, feedback, plan, widx, round_findings,
                   all_findings, replans, critique, exc>>
    /\ UNCHANGED beyondOrch

\* ------------------------------------------------------- Researcher-Critic

RCDecision(c, r) ==
    LoopDecision(c, r, QUALITY_THRESHOLD, MAX_ITERATIONS, 0, FALSE, TRUE)

RCStart ==
    /\ arch = "rc" /\ pc = "idle"
    /\ pc' = "researcher"
    /\ rnd' = 1
    /\ research_output' = NoText
    /\ feedback' = NoText
    /\ UNCHANGED <<arch, data_sources, plan, widx, round_findings, all_findings,
                   replans, critique, calls, result, exc>>
    /\ UNCHANGED beyondOrch

RCResearcher ==
    /\ arch = "rc" /\ pc = "researcher"
    /\ calls' = Append(calls, Call("researcher", 0, {feedback} \ {NoText}))
    /\ research_output' = Response("researcher", 0)
    /\ pc' = "critic"
    /\ UNCHANGED <<arch, data_sources, rnd, feedback, plan, widx, round_findings,
                   all_findings, replans, critique, result, exc>>
    /\ UNCHANGED beyondOrch

RCCritic ==
    /\ arch = "rc" /\ pc = "critic"
    /\ \E c \in CriticTexts :
        LET d == RCDecision(c, rnd)
        IN  /\ critique' = c
            /\ calls' = Append(calls, Call("critic", 0, {research_output}))
            /\ CASE d = "continue" ->
                      /\ feedback' = Txt("feedback", rnd, 0)
                      /\ rnd' = rnd + 1
                      /\ pc' = "researcher"
                      /\ UNCHANGED <<result, exc>>
                 [] d = "exhausted" ->
                      /\ feedback' = Txt("feedback", rnd, 0)
                      /\ result' = ResearchResult(research_output, rnd, 0)
                      /\ pc' = "done"
                      /\ UNCHANGED <<rnd, exc>>
                 [] d = "break" ->
                      /\ result' = ResearchResult(research_output, rnd, 0)
                      /\ pc' = "done"
                      /\ UNCHANGED <<rnd, feedback, exc>>
                 [] OTHER ->
                      /\ exc' = d
                      /\ pc' = "raised"
                      /\ UNCHANGED <<rnd, feedback, result>>
    /\ UNCHANGED <<arch, data_sources, research_output, plan, widx,
                   round_findings, all_findings, replans>>
    /\ UNCHANGED beyondOrch

\* ------------------------------------------------------------- Multi-Agent

MADecision(c, r) ==
    LoopDecision(c, r, APPROVAL_THRESHOLD, MA_MAX_ROUNDS, 0, FALSE, TRUE)

MAStart ==
    /\ arch = "ma" /\ pc = "idle"
    /\ pc' = "researcher"
    /\ rnd' = 1
    /\ research_output' = NoText
    /\ feedback' = NoText
    /\ UNCHANGED <<arch, data_sources, plan, widx, round_findings, all_findings,
                   replans, critique, calls, result, exc>>
    /\ UNCHANGED beyondOrch

MAResearcher ==
    /\ arch = "ma" /\ pc = "researcher"
    /\ calls' = Append(calls, Call("researcher", 0, {feedback} \ {NoText}))
    /\ research_output' = Response("researcher", 0)
    /\ pc' = "critic"
    /\ UNCHANGED <<arch, data_sources, rnd, feedback, plan, widx, round_findings,
                   all_findings, replans, critique, result, exc>>
    /\ UNCHANGED beyondOrch

MACritic ==
    /\ arch = "ma" /\ pc = "critic"
    /\ \E c \in CriticTexts :
        LET d == MADecision(c, rnd)
        IN  /\ critique' = c
            /\ calls' = Append(calls, Call("critic", 0, {research_output}))
            /\ CASE d = "continue" ->
                      /\ feedback' = Txt("feedback", rnd, 0)
                      /\ rnd' = rnd + 1
                      /\ pc' = "researcher"
                      /\ UNCHANGED exc
                 [] d = "exhausted" ->
                      /\ feedback' = Txt("feedback", rnd, 0)
                      /\ pc' = "synthesizer"
                      /\ UNCHANGED <<rnd, exc>>
                 [] d = "break" ->
                      /\ pc' = "synthesizer"
                      /\ UNCHANGED <<rnd, feedback, exc>>
                 [] OTHER ->
                      /\ exc' = d
                      /\ pc' = "raised"
                      /\ UNCHANGED <<rnd, feedback>>
    /\ UNCHANGED <<arch, data_sources, research_output, plan, widx,
                   round_findings, all_findings, replans, result>>
    /\ UNCHANGED beyondOrch

MASynthesizer ==
    /\ arch = "ma" /\ pc = "synthesizer"
    /\ calls' = Append(calls, Call("synthesizer", 0, {research_output}))
    /\ result' = ResearchResult(Response("synthesizer", 0), rnd, 0)
    /\ pc' = "done"
    /\ UNCHANGED <<arch, data_sources, rnd, research_output, feedback, plan, widx,
                   round_findings, all_findings, replans, critique, exc>>
    /\ UNCHANGED beyondOrch

\* ------------------------------------------------------- Supervisor-Worker

SWDecision(c, r) ==
    LoopDecision(c, r, SW_THRESHOLD, SW_MAX_ROUNDS, 10, TRUE, FALSE)

SWStart ==
    /\ arch = "sw" /\ pc = "idle"
    /\ pc' = "planner"
    /\ rnd' = 1
    /\ all_findings' = <<>>
    /\ UNCHANGED <<arch, data_sources, research_output, feedback, plan, widx,
                   round_findings, replans, critique, calls, result, exc>>
    /\ UNCHANGED beyondOrch

SWPlanner ==
    /\ arch = "sw" /\ pc = "planner"
    /\ calls' = Append(calls, Call("planner", 0, Joined(all_findings)))
    /\ plan' = Response("planner", 0)
    /\ round_findings' = <<>>
    /\ widx' = 1
    /\ pc' = "worker"
    /\ UNCHANGED <<arch, data_sources, rnd, research_output, feedback,
                   all_findings, replans, critique, result, exc>>
    /\ UNCHANGED beyondOrch

SWWorker ==
    /\ arch = "sw" /\ pc = "worker"
    /\ LET source == Workers[widx]
           found == Append(round_findings, Response("worker", source))
       IN  /\ calls' = Append(calls, Call("worker", source, {plan}))
           /\ round_findings' = found
           /\ IF widx < Len(Workers)
              THEN /\ widx' = widx + 1
                   /\ UNCHANGED <<pc, all_findings>>
              ELSE /\ all_findings' = found
                   /\ pc' = "critic"
                   /\ UNCHANGED widx
    /\ UNCHANGED <<arch, data_sources, rnd, research_output, feedback, plan,
                   replans, critique, result, exc>>
    /\ UNCHANGED beyondOrch

SWCritic ==
    /\ arch = "sw" /\ pc = "critic"
    /\ \E c \in CriticTexts :
        LET d == SWDecision(c, rnd)
        IN  /\ critique' = c
            /\ calls' = Append(calls, Call("critic", 0, Joined(all_findings)))
            /\ CASE d = "continue" ->
                      /\ rnd' = rnd + 1
                      /\ pc' = "planner"
                      /\ UNCHANGED exc
                 [] d \in {"break", "exhausted"} ->
                      /\ pc' = "synthesizer"
                      /\ UNCHANGED <<rnd, exc>>
                 [] OTHER ->
                      /\ exc' = d
                      /\ pc' = "raised"
                      /\ UNCHANGED rnd
    /\ UNCHANGED <<arch, data_sources, research_output, feedback, plan, widx,
                   round_findings, all_findings, replans, result>>
    /\ UNCHANGED beyondOrch

SWSynthesizer ==
    /\ arch = "sw" /\ pc = "synthesizer"
    /\ calls' = Append(calls, Call("synthesizer", 0, Joined(all_findings)))
    /\ result' = ResearchResult(Response("synthesizer", 0), rnd, Len(Workers))
    /\ pc' = "done"
    /\ UNCHANGED <<arch, data_sources, rnd, research_output, feedback, plan, widx,
                   round_findings, all_findings, replans, critique, exc>>
    /\ UNCHANGED beyondOrch

\* -------------------------------------------------------- Plan-and-Execute

\* rnd is attempt + 1; the range of the loop is MAX_REPLANS + 1 attempts.
PEDecision(c, r) ==
    LoopDecision(c, r, PE_THRESHOLD, MAX_REPLANS + 1, 10, TRUE, FALSE)

PEStart ==
    /\ arch = "pe" /\ pc = "idle"
    /\ pc' = "planner"
    /\ rnd' = 0
    /\ plan' = NoText
    /\ research_output' = NoText
    /\ replans' = 0
    /\ UNCHANGED <<arch, data_sources, feedback, widx, round_findings,
                   all_findings, critique, calls, result, exc>>
    /\ UNCHANGED beyondOrch

\* Phase 1: the initial plan.
PEPlanner ==
    /\ arch = "pe" /\ pc = "planner"
    /\ calls' = Append(calls, Call("planner", 0, {}))
    /\ plan' = Response("planner", 0)
    /\ rnd' = 1
    /\ pc' = "researcher"
    /\ UNCHANGED <<arch, data_sources, research_output, feedback, widx,
                   round_findings, all_findings, replans, critique, result, exc>>
    /\ UNCHANGED beyondOrch

PEResearcher ==
    /\ arch = "pe" /\ pc = "researcher"
    /\ calls' = Append(calls, Call("researcher", 0, {plan}))
    /\ research_output' = Response("researcher", 0)
    /\ pc' = "critic"
    /\ UNCHANGED <<arch, data_sources, rnd, feedback, plan, widx, round_findings,
                   all_findings, replans, critique, result, exc>>
    /\ UNCHANGED beyondOrch

PECritic ==
    /\ arch = "pe" /\ pc = "critic"
    /\ \E c \in CriticTexts :
        LET d == PEDecision(c, rnd)
        IN  /\ critique' = c
            /\ calls' = Append(calls, Call("critic", 0, {research_output}))
            /\ CASE d = "continue" ->
                      /\ replans' = replans + 1
                      /\ pc' = "replan"
                      /\ UNCHANGED exc
                 [] d \in {"break", "exhausted"} ->
                      /\ pc' = "synthesizer"
                      /\ UNCHANGED <<replans, exc>>
                 [] OTHER ->
                      /\ exc' = d
                      /\ pc' = "raised"
                      /\ UNCHANGED replans
    /\ UNCHANGED <<arch, data_sources, rnd, research_output, feedback, plan, widx,
                   round_findings, all_findings, result>>
    /\ UNCHANGED beyondOrch

\* A variant of PEReplan in which the revised plan is not executed: the loop
\* ends with the Planner invocation.
PEReplanDiscarded ==
    /\ arch = "pe" /\ pc = "replan"
    /\ calls' = Append(calls,
            Call("planner", 0, {plan, Txt("critic", Invoked("critic", 0), 0)}))
    /\ plan' = Response("planner", 0)
    /\ pc' = "synthesizer"
    /\ UNCHANGED <<arch, data_sources, rnd, research_output, feedback, widx,
                   round_findings, all_findings, replans, critique, result, exc>>
    /\ UNCHANGED beyondOrch

\* The Planner revises the plan from the previous plan and the critique text.
PEReplan ==
    /\ arch = "pe" /\ pc = "replan"
    /\ calls' = Append(calls,
            Call("planner", 0, {plan, Txt("critic", Invoked("critic", 0), 0)}))
    /\ plan' = Response("planner", 0)
    /\ rnd' = rnd + 1
    /\ pc' = "researcher"
    /\ UNCHANGED <<arch, data_sources, research_output, feedback, widx,
                   round_findings, all_findings, replans, critique, result, exc>>
    /\ UNCHANGED beyondOrch

PESynthesizer ==
    /\ arch = "pe" /\ pc = "synthesizer"
    /\ calls' = Append(calls, Call("synthesizer", 0, {research_output}))
    /\ result' = ResearchResult(Response("synthesizer", 0), replans, 0)
    /\ pc' = "done"
    /\ UNCHANGED <<arch, data_sources, rnd, research_output, feedback, plan, widx,
                   round_findings, all_findings, replans, critique, exc>>
    /\ UNCHANGED beyondOrch

\* ------------------------------------------------------------ specification

Init ==
    /\ arch \in Archs
    /\ data_sources \in Registrations
    /\ pc = "idle"
    /\ rnd = 0
    /\ research_output = NoText
    /\ feedback = NoText
    /\ plan = NoText
    /\ widx = 0
    /\ round_findings = <<>>
    /\ all_findings = <<>>
    /\ replans = 0
    /\ critique = NoCritique
    /\ calls = <<>>
    /\ result = NoResult
    /\ exc = "none"
    /\ all_discoveries = <<>>
    /\ peer_context = FALSE
    /\ worker_text = NoWorkerText
    /\ reported = <<>>
    /\ AgentIdle
    /\ ExtraIdle

Next ==
    \/ SingleStart \/ SingleResearcher
    \/ RCStart \/ RCResearcher \/ RCCritic
    \/ MAStart \/ MAResearcher \/ MACritic \/ MASynthesizer
    \/ SWStart \/ SWPlanner \/ SWWorker \/ SWCritic \/ SWSynthesizer
    \/ PEStart \/ PEPlanner \/ PEResearcher \/ PECritic \/ PEReplan
    \/ PESynthesizer

Spec == Init /\ [][Next]_vars

\* --------------------------------------------------------------- Hybrid P2P

\* dict[key] = value.
Put(dict, key, value) ==
    [k \in DOMAIN dict \cup {key} |-> IF k = key THEN value ELSE dict[k]]

\* The try block that extracts the discoveries of a worker text: the empty
\* list when the except clause (JSONDecodeError, ValueError) takes it or the
\* member is absent, the member's value otherwise; AttributeError propagates.
ParseDiscoveries(w) ==
    CASE w.kind = "invalid" -> [st |-> "ok", kind |-> "empty"]
      [] w.kind = "nonobject" -> [st |-> "AttributeError", kind |-> "empty"]
      [] w.kd = "missing" -> [st |-> "ok", kind |-> "empty"]
      [] OTHER -> [st |-> "ok", kind |-> w.kd]

\* ', '.join(discoveries) for every entry of a dict of discoveries.
JoinAll(dict) ==
    IF \E k \in DOMAIN dict : dict[k].kind = "null" THEN "TypeError" ELSE "ok"

\* peer_context, built at the start of a round: non-empty if and only if
\* all_discoveries is.
PeerContext(discoveries) ==
    IF DOMAIN discoveries = {}
    THEN [st |-> "ok", nonempty |-> FALSE]
    ELSE [st |-> JoinAll(discoveries), nonempty |-> TRUE]

\* worker_prompt of the worker of source name: the discoveries it lists are
\* those all_discoveries holds for the other sources when it is built.
WorkerPrompt(name, context, discoveries) ==
    LET other_discoveries ==
            [k \in DOMAIN discoveries \ {name} |-> discoveries[k]]
    IN  IF context /\ DOMAIN other_discoveries # {}
        THEN [st |-> JoinAll(other_discoveries),
              uses |-> {other_discoveries[k].txt : k \in DOMAIN other_discoveries}]
        ELSE [st |-> "ok", uses |-> {}]

\* The discoveries the worker of a source reported in a round: the empty
\* list is the same in every round, any other value is named by its round.
Discoveries(kind, r, source) ==
    [kind |-> kind,
     txt |-> Txt("discoveries", IF kind = "empty" THEN 0 ELSE r, source)]

HPStart ==
    /\ arch = "hp" /\ pc = "idle"
    /\ all_findings' = <<>>
    /\ all_discoveries' = <<>>
    /\ rnd' = 1
    /\ widx' = 1
    /\ pc' = "worker"
    /\ UNCHANGED <<arch, data_sources, research_output, feedback, plan,
                   round_findings, replans, critique, calls, result, exc,
                   peer_context, worker_text, reported>>
    /\ UNCHANGED <<agentVars, extraVars>>

\* One Source-Worker invocation of a round: the prompt is built (with the
\* round's peer_context first, for the first worker), the worker is run and
\* its discoveries are stored.
HPWorker ==
    /\ arch = "hp" /\ pc = "worker"
    /\ LET source == Workers[widx]
           context == IF widx = 1
                      THEN PeerContext(all_discoveries)
                      ELSE [st |-> "ok", nonempty |-> peer_context]
           prompt == IF context.st = "ok"
                     THEN WorkerPrompt(source, context.nonempty, all_discoveries)
                     ELSE [st |-> context.st, uses |-> {}]
       IN  IF prompt.st # "ok"
           THEN /\ exc' = prompt.st
                /\ pc' = "raised"
                /\ UNCHANGED <<rnd, widx, all_findings, all_discoveries, calls,
                               peer_context, worker_text, reported>>
           ELSE \E w \in WorkerTexts :
                  LET p == ParseDiscoveries(w)
                  IN  /\ calls' = Append(calls, Call("worker", source, prompt.uses))
                      /\ peer_context' = context.nonempty
                      /\ worker_text' = w
                      /\ all_findings' =
                            Put(all_findings, source, Response("worker", source))
                      /\ IF p.st # "ok"
                         THEN /\ exc' = p.st
                              /\ pc' = "raised"
                              /\ UNCHANGED <<rnd, widx, all_discoveries, reported>>
                         ELSE /\ all_discoveries' =
                                    Put(all_discoveries, source,
                                        Discoveries(p.kind, rnd, source))
                              /\ reported' =
                                    Put(reported, <<rnd, source>>,
                                        Discoveries(p.kind, rnd, source))
                              /\ exc' = exc
                              /\ CASE widx < Len(Workers) ->
                                        /\ widx' = widx + 1
                                        /\ UNCHANGED <<rnd, pc>>
                                   [] rnd < HP_MAX_ROUNDS ->
                                        /\ widx' = 1
                                        /\ rnd' = rnd + 1
                                        /\ UNCHANGED pc
                                   [] OTHER ->
                                        /\ pc' = "synthesizer"
                                        /\ UNCHANGED <<rnd, widx>>
    /\ UNCHANGED <<arch, data_sources, research_output, feedback, plan,
                   round_findings, replans, critique, result>>
    /\ UNCHANGED <<agentVars, extraVars>>

HPSynthesizer ==
    /\ arch = "hp" /\ pc = "synthesizer"
    /\ calls' = Append(calls, Call("synthesizer", 0, Joined(all_findings)))
    /\ result' =
          ResearchResult(Response("synthesizer", 0), HP_MAX_ROUNDS, Len(Workers))
    /\ pc' = "done"
    /\ UNCHANGED <<arch, data_sources, rnd, research_output, feedback, plan, widx,
                   round_findings, all_findings, replans, critique, exc,
                   all_discoveries, peer_context, worker_text, reported>>
    /\ UNCHANGED <<agentVars, extraVars>>

InitHybrid ==
    /\ arch = "hp"
    /\ data_sources \in Registrations
    /\ pc = "idle"
    /\ rnd = 0
    /\ research_output = NoText
    /\ feedback = NoText
    /\ plan = NoText
    /\ widx = 0
    /\ round_findings = <<>>
    /\ all_findings = <<>>
    /\ replans = 0
    /\ critique = NoCritique
    /\ calls = <<>>
    /\ result = NoResult
    /\ exc = "none"
    /\ all_discoveries = <<>>
    /\ peer_context = FALSE
    /\ worker_text = NoWorkerText
    /\ reported = <<>>
    /\ AgentIdle
    /\ ExtraIdle

NextHybrid ==
    \/ HPStart
    \/ HPWorker
    \/ HPSynthesizer

SpecHybrid == InitHybrid /\ [][NextHybrid]_vars

\* ---------------------------------------------------------------- run_agent

\* A variant of RegisterTools that leaves the entries of the table alone and
\* adds the names the table does not hold yet.
RegisterToolsKeepFirst(dispatch, ts) ==
    IF ts = NoToolSet
    THEN dispatch
    ELSE [n \in DOMAIN dispatch \cup DOMAIN ts |->
            IF n \in DOMAIN dispatch THEN dispatch[n] ELSE ts[n]]

\* self._tool_dispatch.update(tool_set._functions), when tool_set has them.
RegisterTools(dispatch, ts) ==
    IF ts = NoToolSet
    THEN dispatch
    ELSE [n \in DOMAIN dispatch \cup DOMAIN ts |->
            IF n \in DOMAIN ts THEN ts[n] ELSE dispatch[n]]

\* _call_tool_function up to the call itself: the function found for the
\* name (and registered, when it came from the tool_set), or ValueError.
CallToolFunction(dispatch, ts, fn_name) ==
    CASE fn_name \in DOMAIN dispatch ->
            [st |-> "found", fn |-> dispatch[fn_name], dispatch |-> dispatch]
      [] ts # NoToolSet /\ fn_name \in DOMAIN ts ->
            [st |-> "found", fn |-> ts[fn_name],
             dispatch |-> [n \in DOMAIN dispatch \cup {fn_name} |->
                             IF n = fn_name THEN ts[fn_name] ELSE dispatch[n]]]
      [] OTHER ->
            [st |-> "ValueError", fn |-> 0, dispatch |-> dispatch]

\* The body of the loop of _execute_tool_calls for one call: its output dict
\* (output "error" is json.dumps({"error": str(e)})), whether the function
\* was called, and the dispatch table afterwards.
ExecuteCall(dispatch, ts, fc) ==
    LET found == CallToolFunction(dispatch, ts, fc.name)
        Out(o, ran, d) ==
            [result |-> [type |-> "function_call_output",
                         call_id |-> fc.call_id, output |-> o],
             ran |-> ran, dispatch |-> d]
    IN  CASE fc.arguments = "invalid" -> Out("error", FALSE, dispatch)
          [] found.st = "ValueError" -> Out("error", FALSE, dispatch)
          [] fc.arguments = "array" -> Out("error", FALSE, found.dispatch)
          [] fc.does = "raise" -> Out("error", TRUE, found.dispatch)
          [] OTHER -> Out(fc.does, TRUE, found.dispatch)

\* A variant of _execute_tool_calls in which the first failing call ends the
\* round.
RECURSIVE ExecuteToolCallsAbort(_, _, _)
ExecuteToolCallsAbort(fn_calls, ts, dispatch) ==
    IF fn_calls = <<>>
    THEN [results |-> <<>>, executed |-> <<>>, dispatch |-> dispatch]
    ELSE LET one == ExecuteCall(dispatch, ts, Head(fn_calls))
             rest == IF one.result.output = "error"
                     THEN [results |-> <<>>, executed |-> <<>>,
                           dispatch |-> one.dispatch]
                     ELSE ExecuteToolCallsAbort(Tail(fn_calls), ts, one.dispatch)
         IN  [results |-> <<one.result>> \o rest.results,
              executed |-> (IF one.ran THEN <<Head(fn_calls).call_id>>
                            ELSE <<>>) \o rest.executed,
              dispatch |-> rest.dispatch]

\* _execute_tool_calls: the outputs of the calls in order, the call_ids of
\* the calls whose function ran, and the dispatch table afterwards.
RECURSIVE ExecuteToolCalls(_, _, _)
ExecuteToolCalls(fn_calls, ts, dispatch) ==
    IF fn_calls = <<>>
    THEN [results |-> <<>>, executed |-> <<>>, dispatch |-> dispatch]
    ELSE LET one == ExecuteCall(dispatch, ts, Head(fn_calls))
             rest == ExecuteToolCalls(Tail(fn_calls), ts, one.dispatch)
         IN  [results |-> <<one.result>> \o rest.results,
              executed |-> (IF one.ran THEN <<Head(fn_calls).call_id>>
                            ELSE <<>>) \o rest.executed,
              dispatch |-> rest.dispatch]

\* A variant of LoopContinues whose range holds one round more.
LoopContinuesOneMore(r, n) == n <= max_rounds /\ r.fn_calls # <<>>

\* Whether the tool-call loop runs another round on response r after n
\* rounds: the range is not used up and r requests function calls.
LoopContinues(r, n) == n < max_rounds /\ r.fn_calls # <<>>

\* response_text: the text of the messages of the response, "" without one.
ResponseText(r) == IF r.message THEN r.id ELSE 0

\* What run_agent does with a response r received after n rounds: dispatch
\* its tool calls, or return its text.
Received(r, n) ==
    /\ response' = r
    /\ round_num' = n
    /\ backend_calls' = backend_calls + 1
    /\ IF LoopContinues(r, n)
       THEN /\ ag_pc' = "tools"
            /\ UNCHANGED run_result
       ELSE /\ ag_pc' = "returned"
            /\ run_result' = [text |-> ResponseText(r), returned |-> TRUE]

\* run_agent up to the response of its initial responses.create call.
AgentStart ==
    /\ ag_pc = "idle"
    /\ \E ts \in ToolSets, shapes \in CallLists, message \in BOOLEAN :
        /\ tool_set' = ts
        /\ tool_dispatch' = RegisterTools(tool_dispatch, ts)
        /\ Received(BackendResponse(backend_calls + 1, shapes, message), 0)
    /\ UNCHANGED <<tool_results, executed>>
    /\ UNCHANGED <<orchVars, hpOnly, extraVars>>

\* One round of the loop up to its responses.create call: the tool calls of
\* the response are executed.
AgentTools ==
    /\ ag_pc = "tools"
    /\ LET done == ExecuteToolCalls(response.fn_calls, tool_set, tool_dispatch)
       IN  /\ tool_results' = done.results
           /\ executed' = done.executed
           /\ tool_dispatch' = done.dispatch
    /\ ag_pc' = "backend"
    /\ UNCHANGED <<tool_set, response, round_num, backend_calls, run_result>>
    /\ UNCHANGED <<orchVars, hpOnly, extraVars>>

\* The responses.create call that hands the outputs of the round to the
\* backend, and what follows its response; the outputs are not used again.
AgentContinue ==
    /\ ag_pc = "backend"
    /\ \E shapes \in CallLists, message \in BOOLEAN :
        Received(BackendResponse(backend_calls + 1, shapes, message),
                 round_num + 1)
    /\ tool_results' = <<>>
    /\ executed' = <<>>
    /\ UNCHANGED <<tool_set, tool_dispatch>>
    /\ UNCHANGED <<orchVars, hpOnly, extraVars>>

\* The orchestrator variables of a specification that runs no research().
OrchIdle ==
    /\ arch = "none"
    /\ data_sources = <<>>
    /\ pc = "idle"
    /\ rnd = 0
    /\ research_output = NoText
    /\ feedback = NoText
    /\ plan = NoText
    /\ widx = 0
    /\ round_findings = <<>>
    /\ all_findings = <<>>
    /\ replans = 0
    /\ critique = NoCritique
    /\ calls = <<>>
    /\ result = NoResult
    /\ exc = "none"
    /\ all_discoveries = <<>>
    /\ peer_context = FALSE
    /\ worker_text = NoWorkerText
    /\ reported = <<>>

InitAgent ==
    /\ OrchIdle
    /\ ag_pc = "idle"
    /\ tool_set = NoToolSet
    /\ tool_dispatch = NoFunctions
    /\ response = NoResponse
    /\ round_num = 0
    /\ tool_results = <<>>
    /\ executed = <<>>
    /\ backend_calls = 0
    /\ run_result = NoRunResult
    /\ ExtraIdle

NextAgent ==
    \/ AgentStart
    \/ AgentTools
    \/ AgentContinue

SpecAgent == InitAgent /\ [][NextAgent]_vars

\* ------------------------------------------------------------ ToolCallStats

\* The six patterns; sw and hp keep one tracker per Source-Worker, the others
\* keep the one tracker of create_researcher.
Patterns == {"single", "rc", "ma", "pe", "sw", "hp"}

\* self._all_stats, or the single self.stats, as a list of trackers.
AllStats(a) ==
    IF a \in {"sw", "hp"} THEN [i \in 1..NumSources |-> i] ELSE <<1>>

\* The names (by source) of the search functions that record into tracker t.
SearchNames(a, t) == IF a \in {"sw", "hp"} THEN {t} ELSE Sources

\* List objects: the sources_called of tracker t, the n-th copy made by its
\* reset(), and the list research() aggregates into.
Own(t) == <<"own", t, 0>>
Copy(t, n) == <<"copy", t, n>>
Aggregate(n) == <<"aggregate", 0, n>>

\* The outputs a search function hands to record(): the error dict or the
\* JSON list of n documents.
SearchOutputs ==
    {[kind |-> "dict", error |-> TRUE]}
    \cup {[kind |-> "list", n |-> n] : n \in 0..MaxDocs}

\* A DataSourceResult: error is None, a message, or the empty str (str(e) of
\* an exception without a message); documents is the number of documents
\* the source had collected when it returned.
NoSourceError == "None"

SourceResults ==
    {[error |-> e, documents |-> n] :
        e \in {NoSourceError, "API error 500", ""}, n \in 0..MaxDocs}

\* The output of the search function for a result of its source: the error
\* dict (with an empty "documents") if result.error is truthy, the JSON list
\* of the documents otherwise.
SearchOutput(res) ==
    IF res.error \notin {NoSourceError, ""}
    THEN [kind |-> "dict", error |-> TRUE]
    ELSE [kind |-> "list", n |-> res.documents]

\* What record() adds to documents_retrieved for an output: the length of a
\* JSON list, 1 for a JSON object without "error", 0 otherwise (an object
\* with "error", another JSON value, or a text json.loads rejects).
DocsOf(output) ==
    CASE output.kind = "list" -> output.n
      [] output.kind = "dict" /\ ~output.error -> 1
      [] OTHER -> 0

\* list.append on a list object.
AppendTo(L, ref, x) == [L EXCEPT ![ref] = Append(@, x)]

\* x in list.
InList(x, l) == \E i \in DOMAIN l : l[i] = x

\* ToolCallStats.record on tracker t of the trackers S.
Record(S, t, fn_name, output) ==
    [S EXCEPT
        !.lists = IF InList(fn_name, S.lists[Own(t)])
                  THEN @ ELSE AppendTo(@, Own(t), fn_name),
        !.docs = [@ EXCEPT ![t] = @ + DocsOf(output)]]

\* A variant of reset() that returns the tracker's own list.
ResetAlias(S, t) ==
    [S |-> [S EXCEPT !.docs = [@ EXCEPT ![t] = 0],
                     !.lists = [@ EXCEPT ![Own(t)] = <<>>]],
     ret |-> [docs |-> S.docs[t], sources |-> Own(t)]]

\* ToolCallStats.reset on tracker t: the trackers afterwards and the pair
\* returned, whose list is a new list object.
Reset(S, t) ==
    LET new == Copy(t, S.slot[t])
    IN  [S |-> [docs |-> [S.docs EXCEPT ![t] = 0],
                lists |-> [r \in DOMAIN S.lists \cup {new} |->
                             CASE r = new -> S.lists[Own(t)]
                               [] r = Own(t) -> <<>>
                               [] OTHER -> S.lists[r]],
                slot |-> [S.slot EXCEPT ![t] = @ + 1]],
         ret |-> [docs |-> S.docs[t], sources |-> new]]

\* reset() on each tracker of ts in turn: the trackers afterwards and the
\* pairs returned.
RECURSIVE ResetEach(_, _)
ResetEach(S, ts) ==
    IF ts = <<>>
    THEN [S |-> S, rets |-> <<>>]
    ELSE LET one == Reset(S, Head(ts))
             rest == ResetEach(one.S, Tail(ts))
         IN  [S |-> rest.S, rets |-> <<one.ret>> \o rest.rets]

\* A variant of ResetBeforeRun that resets nothing.
NoResetBeforeRun(S, a) == [S |-> S, rets |-> <<>>]

\* The resets at the start of research().
ResetBeforeRun(S, a) == ResetEach(S, AllStats(a))

\* sources_called.extend(x for x in sc if x not in sources_called).
RECURSIVE ExtendNew(_, _)
ExtendNew(l, sc) ==
    IF sc = <<>> THEN l
    ELSE ExtendNew(IF InList(Head(sc), l) THEN l ELSE Append(l, Head(sc)),
                   Tail(sc))

\* The aggregation loop at the end of research() over the pairs returned.
RECURSIVE Aggregated(_, _, _)
Aggregated(L, rets, acc) ==
    IF rets = <<>> THEN acc
    ELSE Aggregated(L, Tail(rets),
                    [docs |-> acc.docs + Head(rets).docs,
                     sources |-> ExtendNew(acc.sources, L[Head(rets).sources])])

\* The trackers as one value.
Stats == [docs |-> documents_retrieved, lists |-> lists, slot |-> slot]

\* The trackers become S; of the other list objects only those still
\* referenced (refs) are kept.
SetStats(S, refs) ==
    /\ documents_retrieved' = S.docs
    /\ lists' = [r \in {x \in DOMAIN S.lists : x[1] = "own" \/ x \in refs} |->
                   S.lists[r]]
    /\ slot' = S.slot

\* The list a returned ResearchResult refers to.
ResultRefs(res) == IF res.returned THEN {res.sources_checked} ELSE {}

\* The lists the pairs rets refer to.
RetRefs(rets) == {rets[i].sources : i \in DOMAIN rets}

\* The history kept of the research() call under way: docs and names are the
\* documents returned and the search functions called in it, clean[t] says no
\* record() reached tracker t since its last reset(), dirty that a tracker
\* held documents when the call started.
\* What each tracker of ts holds, before an action changes it.
Held(ts) ==
    [i \in DOMAIN ts |->
        [docs |-> documents_retrieved[ts[i]], sources |-> lists[Own(ts[i])],
         clean |-> made.clean[ts[i]]]]

\* research() up to its first role invocation: the trackers are reset.
StatsStart ==
    /\ st_pc \in {"new", "returned", "raised"}
    /\ st_runs < MaxRuns
    /\ LET r == ResetBeforeRun(Stats, st_arch)
       IN  /\ SetStats(r.S, RetRefs(r.rets) \cup ResultRefs(st_result))
           /\ last_reset' = [rets |-> r.rets, held |-> Held(AllStats(st_arch))]
    /\ made' = [docs |-> 0, names |-> {},
                clean |-> [t \in DOMAIN made.clean |-> TRUE],
                dirty |-> \E t \in DOMAIN documents_retrieved :
                             documents_retrieved[t] > 0]
    /\ st_pc' = "running"
    /\ st_runs' = st_runs + 1
    /\ st_calls' = 0
    /\ UNCHANGED <<st_arch, st_result>>
    /\ UNCHANGED <<orchVars, hpOnly, agentVars, thrVars, dispVars, evalVars>>

\* A search function runs during a role invocation and records its output;
\* the pairs the resets at the start returned are not referenced any more.
StatsSearch ==
    /\ st_pc = "running"
    /\ st_calls < MaxSearches
    /\ \E i \in DOMAIN AllStats(st_arch), res \in SourceResults :
        LET t == AllStats(st_arch)[i]
            output == SearchOutput(res)
        IN  \E fn_name \in SearchNames(st_arch, t) :
              /\ SetStats(Record(Stats, t, fn_name, output),
                          ResultRefs(st_result))
              /\ made' = [docs |-> made.docs + (IF output.kind = "list"
                                                THEN output.n ELSE 0),
                          names |-> made.names \cup {fn_name},
                          clean |-> [made.clean EXCEPT ![t] = FALSE],
                          dirty |-> made.dirty]
    /\ last_reset' = [rets |-> <<>>, held |-> <<>>]
    /\ st_calls' = st_calls + 1
    /\ UNCHANGED <<st_arch, st_pc, st_result, st_runs>>
    /\ UNCHANGED <<orchVars, hpOnly, agentVars, thrVars, dispVars, evalVars>>

\* research() raises between two role invocations.
StatsRaise ==
    /\ st_pc = "running"
    /\ st_pc' = "raised"
    /\ UNCHANGED <<st_arch, documents_retrieved, lists, slot, last_reset, made,
                   st_result, st_runs, st_calls>>
    /\ UNCHANGED <<orchVars, hpOnly, agentVars, thrVars, dispVars, evalVars>>

\* research() after its last role invocation: the trackers are read and
\* cleared and the ResearchResult is built.
StatsReturn ==
    /\ st_pc = "running"
    /\ LET r == ResetEach(Stats, AllStats(st_arch))
           agg == Aggregate(st_runs)
           sum == Aggregated(r.S.lists, r.rets, [docs |-> 0, sources |-> <<>>])
       IN  /\ last_reset' = [rets |-> r.rets, held |-> Held(AllStats(st_arch))]
           /\ IF st_arch \in {"sw", "hp"}
              THEN /\ SetStats([r.S EXCEPT !.lists =
                                   [x \in DOMAIN r.S.lists \cup {agg} |->
                                      IF x = agg THEN sum.sources
                                      ELSE r.S.lists[x]]],
                               RetRefs(r.rets) \cup {agg})
                   /\ st_result' = [documents_retrieved |-> sum.docs,
                                    sources_checked |-> agg,
                                    names |-> made.names, returned |-> TRUE]
              ELSE /\ SetStats(r.S, RetRefs(r.rets))
                   /\ st_result' = [documents_retrieved |-> r.rets[1].docs,
                                    sources_checked |-> r.rets[1].sources,
                                    names |-> made.names, returned |-> TRUE]
    /\ made' = [made EXCEPT !.clean = [t \in DOMAIN made.clean |-> TRUE]]
    /\ st_pc' = "returned"
    /\ UNCHANGED <<st_arch, st_runs, st_calls>>
    /\ UNCHANGED <<orchVars, hpOnly, agentVars, thrVars, dispVars, evalVars>>

InitStats ==
    /\ OrchIdle
    /\ AgentIdle
    /\ EvalIdle
    /\ ThreadsIdle
    /\ DispatchIdle
    /\ st_arch \in Patterns
    /\ st_pc = "new"
    /\ documents_retrieved = [t \in {AllStats(st_arch)[i] :
                                       i \in DOMAIN AllStats(st_arch)} |-> 0]
    /\ lists = [r \in {Own(AllStats(st_arch)[i]) :
                         i \in DOMAIN AllStats(st_arch)} |-> <<>>]
    /\ slot = [t \in DOMAIN documents_retrieved |-> 1]
    /\ last_reset = [rets |-> <<>>, held |-> <<>>]
    /\ made = [docs |-> 0, names |-> {},
               clean |-> [t \in DOMAIN documents_retrieved |-> FALSE],
               dirty |-> FALSE]
    /\ st_result = [documents_retrieved |-> 0, sources_checked |-> Own(1),
                    names |-> {}, returned |-> FALSE]
    /\ st_runs = 0
    /\ st_calls = 0

NextStats ==
    \/ StatsStart
    \/ StatsSearch
    \/ StatsRaise
    \/ StatsReturn

SpecStats == InitStats /\ [][NextStats]_vars

\* ----------------------------------------------- the search function alone

\* The calls of the search functions of one orchestrator and the resets of
\* its trackers, in any order; made is the list of the searches made on the
\* trackers since their last reset, with the result of the source of each.
SearchTool ==
    /\ st_calls < MaxToolCalls
    /\ \E i \in DOMAIN AllStats(st_arch), res \in SourceResults :
        LET t == AllStats(st_arch)[i]
        IN  \E fn_name \in SearchNames(st_arch, t) :
              /\ SetStats(Record(Stats, t, fn_name, SearchOutput(res)), {})
              /\ made' = Append(made, [tracker |-> t, fn_name |-> fn_name,
                                       error |-> res.error,
                                       documents |-> res.documents])
    /\ st_calls' = st_calls + 1
    /\ UNCHANGED <<st_arch, st_pc, last_reset, st_result, st_runs>>
    /\ UNCHANGED <<orchVars, hpOnly, agentVars, thrVars, dispVars, evalVars>>

TrackerReset ==
    /\ st_calls < MaxToolCalls
    /\ \E i \in DOMAIN AllStats(st_arch) :
        LET t == AllStats(st_arch)[i]
            r == Reset(Stats, t)
        IN  /\ SetStats(r.S, {})
            /\ made' = SelectSeq(made, LAMBDA c : c.tracker # t)
    /\ st_calls' = st_calls + 1
    /\ UNCHANGED <<st_arch, st_pc, last_reset, st_result, st_runs>>
    /\ UNCHANGED <<orchVars, hpOnly, agentVars, thrVars, dispVars, evalVars>>

InitSearch ==
    /\ OrchIdle
    /\ AgentIdle
    /\ EvalIdle
    /\ ThreadsIdle
    /\ DispatchIdle
    /\ st_arch \in Patterns
    /\ st_pc = "new"
    /\ documents_retrieved = [t \in {AllStats(st_arch)[i] :
                                       i \in DOMAIN AllStats(st_arch)} |-> 0]
    /\ lists = [r \in {Own(AllStats(st_arch)[i]) :
                         i \in DOMAIN AllStats(st_arch)} |-> <<>>]
    /\ slot = [t \in DOMAIN documents_retrieved |-> 1]
    /\ last_reset = <<>>
    /\ made = <<>>
    /\ st_result = <<>>
    /\ st_runs = 0
    /\ st_calls = 0

NextSearch ==
    \/ SearchTool
    \/ TrackerReset

SpecSearch == InitSearch /\ [][NextSearch]_vars

\* ------------------------------------------- ToolCallStats, several threads

Threads == 1..MaxThreads

NoLocal == [op |-> "none"]

\* A variant of CanAcquire for a tracker without the lock.
AcquireUnguarded(l) == TRUE

\* threading.Lock.acquire can go ahead: no thread holds the lock.
CanAcquire(l) == l = 0

\* A thread at position p moves to q, its locals becoming loc.
Move(th, q, loc) ==
    /\ th_pc' = [th_pc EXCEPT ![th] = q]
    /\ th_local' = [th_local EXCEPT ![th] = loc]

thrHistory == <<ops_done, recorded_total, returned_total, unreturned, last_ret>>

\* record(fn_name, output) is called and enters `with self._lock`.
ThrRecordAcquire(th) ==
    /\ th_pc[th] = "idle"
    /\ ops_done + Cardinality({t \in Threads : th_pc[t] # "idle"}) < MaxOps
    /\ CanAcquire(lock)
    /\ lock' = th
    /\ \E fn_name \in Sources, output \in SearchOutputs :
        Move(th, "check", [op |-> "record", fn_name |-> fn_name,
                            output |-> output])
    /\ UNCHANGED <<tr_docs, tr_sources, thrHistory>>
    /\ UNCHANGED <<orchVars, hpOnly, agentVars, statsVars, dispVars, evalVars>>

\* if fn_name not in self.sources_called
ThrRecordCheck(th) ==
    /\ th_pc[th] = "check"
    /\ Move(th, IF InList(th_local[th].fn_name, tr_sources)
                THEN "parse" ELSE "append", th_local[th])
    /\ UNCHANGED <<lock, tr_docs, tr_sources, thrHistory>>
    /\ UNCHANGED <<orchVars, hpOnly, agentVars, statsVars, dispVars, evalVars>>

\* self.sources_called.append(fn_name)
ThrRecordAppend(th) ==
    /\ th_pc[th] = "append"
    /\ tr_sources' = Append(tr_sources, th_local[th].fn_name)
    /\ Move(th, "parse", th_local[th])
    /\ UNCHANGED <<lock, tr_docs, thrHistory>>
    /\ UNCHANGED <<orchVars, hpOnly, agentVars, statsVars, dispVars, evalVars>>

\* The try block up to the read of self.documents_retrieved by `+=`; an
\* output that adds nothing goes straight to the end of the with block.
ThrRecordRead(th) ==
    /\ th_pc[th] = "parse"
    /\ IF th_local[th].output.kind = "list"
       THEN Move(th, "write", [op |-> "record",
                               fn_name |-> th_local[th].fn_name,
                               output |-> th_local[th].output,
                               read |-> tr_docs])
       ELSE Move(th, "release", th_local[th])
    /\ UNCHANGED <<lock, tr_docs, tr_sources, thrHistory>>
    /\ UNCHANGED <<orchVars, hpOnly, agentVars, statsVars, dispVars, evalVars>>

\* The write of self.documents_retrieved by `+=`.
ThrRecordWrite(th) ==
    /\ th_pc[th] = "write"
    /\ tr_docs' = th_local[th].read + DocsOf(th_local[th].output)
    /\ Move(th, "release", th_local[th])
    /\ UNCHANGED <<lock, tr_sources, thrHistory>>
    /\ UNCHANGED <<orchVars, hpOnly, agentVars, statsVars, dispVars, evalVars>>

\* record() leaves the with block and returns.
ThrRecordRelease(th) ==
    /\ th_pc[th] = "release"
    /\ lock' = 0
    /\ ops_done' = ops_done + 1
    /\ recorded_total' = recorded_total + DocsOf(th_local[th].output)
    /\ unreturned' = unreturned \cup {th_local[th].fn_name}
    /\ Move(th, "idle", NoLocal)
    /\ UNCHANGED <<tr_docs, tr_sources, returned_total, last_ret>>
    /\ UNCHANGED <<orchVars, hpOnly, agentVars, statsVars, dispVars, evalVars>>

\* reset() is called and enters `with self._lock`.
ThrResetAcquire(th) ==
    /\ th_pc[th] = "idle"
    /\ ops_done + Cardinality({t \in Threads : th_pc[t] # "idle"}) < MaxOps
    /\ CanAcquire(lock)
    /\ lock' = th
    /\ Move(th, "docs", [op |-> "reset", docs |-> 0, sources |-> <<>>])
    /\ UNCHANGED <<tr_docs, tr_sources, thrHistory>>
    /\ UNCHANGED <<orchVars, hpOnly, agentVars, statsVars, dispVars, evalVars>>

\* docs = self.documents_retrieved
ThrResetDocs(th) ==
    /\ th_pc[th] = "docs"
    /\ Move(th, "copy", [th_local[th] EXCEPT !.docs = tr_docs])
    /\ UNCHANGED <<lock, tr_docs, tr_sources, thrHistory>>
    /\ UNCHANGED <<orchVars, hpOnly, agentVars, statsVars, dispVars, evalVars>>

\* sources = list(self.sources_called)
ThrResetCopy(th) ==
    /\ th_pc[th] = "copy"
    /\ Move(th, "zero", [th_local[th] EXCEPT !.sources = tr_sources])
    /\ UNCHANGED <<lock, tr_docs, tr_sources, thrHistory>>
    /\ UNCHANGED <<orchVars, hpOnly, agentVars, statsVars, dispVars, evalVars>>

\* self.documents_retrieved = 0
ThrResetZero(th) ==
    /\ th_pc[th] = "zero"
    /\ tr_docs' = 0
    /\ Move(th, "clear", th_local[th])
    /\ UNCHANGED <<lock, tr_sources, thrHistory>>
    /\ UNCHANGED <<orchVars, hpOnly, agentVars, statsVars, dispVars, evalVars>>

\* self.sources_called.clear()
ThrResetClear(th) ==
    /\ th_pc[th] = "clear"
    /\ tr_sources' = <<>>
    /\ Move(th, "return", th_local[th])
    /\ UNCHANGED <<lock, tr_docs, thrHistory>>
    /\ UNCHANGED <<orchVars, hpOnly, agentVars, statsVars, dispVars, evalVars>>

\* return docs, sources: reset() leaves the with block.
ThrResetReturn(th) ==
    /\ th_pc[th] = "return"
    /\ lock' = 0
    /\ ops_done' = ops_done + 1
    /\ returned_total' = returned_total + th_local[th].docs
    /\ last_ret' = [sources |-> th_local[th].sources, names |-> unreturned,
                    returned |-> TRUE]
    /\ unreturned' = {}
    /\ Move(th, "idle", NoLocal)
    /\ UNCHANGED <<tr_docs, tr_sources, recorded_total>>
    /\ UNCHANGED <<orchVars, hpOnly, agentVars, statsVars, dispVars, evalVars>>

InitThreads ==
    /\ OrchIdle
    /\ AgentIdle
    /\ EvalIdle
    /\ StatsIdle
    /\ DispatchIdle
    /\ lock = 0
    /\ th_pc = [th \in Threads |-> "idle"]
    /\ th_local = [th \in Threads |-> NoLocal]
    /\ tr_docs = 0
    /\ tr_sources = <<>>
    /\ ops_done = 0
    /\ recorded_total = 0
    /\ returned_total = 0
    /\ unreturned = {}
    /\ last_ret = [sources |-> <<>>, names |-> {}, returned |-> FALSE]

NextThreads ==
    \E th \in Threads :
        \/ ThrRecordAcquire(th)
        \/ ThrRecordCheck(th)
        \/ ThrRecordAppend(th)
        \/ ThrRecordRead(th)
        \/ ThrRecordWrite(th)
        \/ ThrRecordRelease(th)
        \/ ThrResetAcquire(th)
        \/ ThrResetDocs(th)
        \/ ThrResetCopy(th)
        \/ ThrResetZero(th)
        \/ ThrResetClear(th)
        \/ ThrResetReturn(th)

SpecThreads == InitThreads /\ [][NextThreads]_vars

\* --------------------------------------------- one manager, several owners

\* The orchestrators that share one FoundryAgentManager; the search function
\* an orchestrator makes for a source is named by the orchestrator.
Owners == 1..MaxOwners

\* The names search functions are registered under (search_<source>).
SearchFnNames == {"search", "search_b"}

\* The tool sets of orchestrator o: its searches of some of the sources, each
\* under the name of its source.
ToolSetsOf(o) ==
    {[n \in N |-> o] : N \in (SUBSET SearchFnNames) \ {{}}}

NoLookup == [name |-> "none", st |-> "none", fn |-> 0]

\* run_agent up to the registration of the functions of its tool_set.
DispatchRunAgent ==
    /\ dp_runs < MaxRuns
    /\ \E ts \in {NoToolSet} \cup UNION {ToolSetsOf(o) : o \in Owners} :
        /\ tool_set' = ts
        /\ tool_dispatch' = RegisterTools(tool_dispatch, ts)
        /\ first_fn' = IF ts = NoToolSet THEN first_fn
                       ELSE [n \in DOMAIN first_fn \cup DOMAIN ts |->
                               IF n \in DOMAIN first_fn THEN first_fn[n]
                               ELSE ts[n]]
    /\ dp_runs' = dp_runs + 1
    /\ looked' = NoLookup
    /\ UNCHANGED <<dp_recorded, runVars>>
    /\ UNCHANGED <<ag_pc, response, round_num, tool_results, executed,
                   backend_calls, run_result>>
    /\ UNCHANGED <<orchVars, hpOnly, statsVars, thrVars, evalVars>>

\* The orchestrator whose run_agent call is under way: the one that made the
\* functions of tool_set (0 for a call without tools).
Running(ts) ==
    IF ts = NoToolSet THEN 0 ELSE CHOOSE o \in Owners : ts \in ToolSetsOf(o)

\* _call_tool_function for one tool call of the run under way: the function
\* found is called, and unless it raises first (source.search, or arguments
\* it does not take) it records the search in the tracker it was made with,
\* the one of the orchestrator that made the function. offered: the name is
\* one of the tools of tool_set, those the backend was given.
DispatchToolCall ==
    /\ dp_runs > 0
    /\ \E fn_name \in SearchFnNames, raises \in BOOLEAN :
        LET found == CallToolFunction(tool_dispatch, tool_set, fn_name)
        IN  /\ looked' = [name |-> fn_name, st |-> found.st, fn |-> found.fn]
            /\ tool_dispatch' = found.dispatch
            /\ dp_recorded' =
                  IF found.st = "found" /\ ~raises
                  THEN dp_recorded \cup
                         {[tracker |-> found.fn, running |-> Running(tool_set),
                           offered |-> tool_set # NoToolSet
                                       /\ fn_name \in DOMAIN tool_set]}
                  ELSE dp_recorded
    /\ UNCHANGED <<first_fn, dp_runs, tool_set, runVars>>
    /\ UNCHANGED <<ag_pc, response, round_num, tool_results, executed,
                   backend_calls, run_result>>
    /\ UNCHANGED <<orchVars, hpOnly, statsVars, thrVars, evalVars>>

InitDispatch ==
    /\ OrchIdle
    /\ AgentIdle
    /\ EvalIdle
    /\ StatsIdle
    /\ ThreadsIdle
    /\ first_fn = <<>>
    /\ looked = NoLookup
    /\ dp_runs = 0
    /\ dp_recorded = {}
    /\ RunIdle

NextDispatch ==
    \/ DispatchRunAgent
    \/ DispatchToolCall

SpecDispatch == InitDispatch /\ [][NextDispatch]_vars

\* ------------------------------------------------- the manager's agents

\* An agent name as create_agent tracks it (version "") or an agent id
\* "name:version".
Name(n, v) == [name |-> n, version |-> v]

\* agent_name of the agents the factories create: "researcher", "critic".
AgentNames == {"researcher", "critic"}

\* cleanup's agent_id when None or empty: both are falsy.
NoAgentId == Name("", "")

\* name.split(":")[0] if ":" in name else name
BeforeColon(x) == Name(x.name, "")

\* A variant of DeleteEach without the try around the DELETE request: the
\* first failure leaves cleanup.
RECURSIVE DeleteEachUnguarded(_, _, _)
DeleteEachUnguarded(names_to_delete, created, fails) ==
    IF names_to_delete = <<>>
    THEN [created |-> created, deletes |-> <<>>, raised |-> FALSE]
    ELSE LET agent_name == BeforeColon(Head(names_to_delete))
             request == [agent_name |-> agent_name, failed |-> Head(fails)]
             rest == DeleteEachUnguarded(
                         Tail(names_to_delete),
                         SelectSeq(created, LAMBDA a : a # agent_name),
                         Tail(fails))
         IN IF Head(fails)
            THEN [created |-> created, deletes |-> <<request>>,
                  raised |-> TRUE]
            ELSE [rest EXCEPT !.deletes = <<request>> \o @]

\* The for loop of cleanup over names_to_delete: a DELETE request for each
\* name, whose failure is logged, and the name taken out of
\* self._created_agents. fails[k] says whether the k-th request raises.
RECURSIVE DeleteEach(_, _, _)
DeleteEach(names_to_delete, created, fails) ==
    IF names_to_delete = <<>>
    THEN [created |-> created, deletes |-> <<>>, raised |-> FALSE]
    ELSE LET agent_name == BeforeColon(Head(names_to_delete))
             request == [agent_name |-> agent_name, failed |-> Head(fails)]
             rest == DeleteEach(Tail(names_to_delete),
                                SelectSeq(created, LAMBDA a : a # agent_name),
                                Tail(fails))
         IN [rest EXCEPT !.deletes = <<request>> \o @]

\* names_to_delete = [agent_id] if agent_id else list(self._created_agents)
NamesToDelete(agent_id) ==
    IF agent_id # NoAgentId THEN <<agent_id>> ELSE mg_created

\* FoundryAgentManager.cleanup(agent_id): what it leaves in
\* self._created_agents, the DELETE requests it issued and whether an
\* exception left it.
cleanup(agent_id, fails) ==
    IF mg_keep
    THEN [created |-> mg_created, deletes |-> <<>>, raised |-> FALSE]
    ELSE DeleteEach(NamesToDelete(agent_id), mg_created, fails)

\* The record of one cleanup call.
CleanupCall(agent_id, r, on_exit) ==
    [agent_id |-> agent_id, keep |-> mg_keep, before |-> mg_created,
     deletes |-> r.deletes, after |-> r.created, raised |-> r.raised,
     on_exit |-> on_exit]

mgRest ==
    <<ra_pc, ra_arch, ra_mode, ra_files, ra_ret, first_fn, looked, dp_runs,
      dp_recorded>>

\* create_agent in the body of the with block: the POST succeeded and the
\* name is tracked. (A POST that fails raises out of the body.)
MgCreateAgent ==
    /\ mg_pc = "body"
    /\ Len(mg_created) < MaxAgents
    /\ \E n \in AgentNames : mg_created' = Append(mg_created, Name(n, ""))
    /\ UNCHANGED <<mg_pc, mg_keep, mg_log>>
    /\ UNCHANGED mgRest
    /\ UNCHANGED <<orchVars, hpOnly, agentVars, statsVars, thrVars, evalVars>>

\* cleanup() or cleanup(agent_id) called in the body of the with block.
MgCleanup ==
    /\ mg_pc = "body"
    /\ Len(mg_log) < MaxCleanups
    /\ \E agent_id \in {NoAgentId}
                       \cup {Name(mg_created[k].name, "1") :
                                k \in DOMAIN mg_created} :
         \E fails \in [1..Len(NamesToDelete(agent_id)) -> BOOLEAN] :
           LET r == cleanup(agent_id, fails)
           IN /\ mg_created' = r.created
              /\ mg_log' = Append(mg_log, CleanupCall(agent_id, r, FALSE))
    /\ UNCHANGED <<mg_pc, mg_keep>>
    /\ UNCHANGED mgRest
    /\ UNCHANGED <<orchVars, hpOnly, agentVars, statsVars, thrVars, evalVars>>

\* The with block is left, by the end of its body or by an exception of it:
\* __exit__ calls cleanup() and returns None, so an exception of the body
\* goes on.
MgExit ==
    /\ mg_pc = "body"
    /\ \E body_raised \in BOOLEAN :
         \E fails \in [1..Len(NamesToDelete(NoAgentId)) -> BOOLEAN] :
           LET r == cleanup(NoAgentId, fails)
           IN /\ mg_created' = r.created
              /\ mg_log' = Append(mg_log, CleanupCall(NoAgentId, r, TRUE))
              /\ mg_pc' = IF body_raised \/ r.raised THEN "raised"
                          ELSE "left"
    /\ UNCHANGED mg_keep
    /\ UNCHANGED mgRest
    /\ UNCHANGED <<orchVars, hpOnly, agentVars, statsVars, thrVars, evalVars>>

\* with FoundryAgentManager(keep_agents=...) as manager: the body starts
\* with no agent tracked.
InitManager ==
    /\ OrchIdle
    /\ AgentIdle
    /\ EvalIdle
    /\ StatsIdle
    /\ ThreadsIdle
    /\ first_fn = <<>>
    /\ looked = <<>>
    /\ dp_runs = 0
    /\ dp_recorded = {}
    /\ mg_pc = "body"
    /\ mg_keep \in BOOLEAN
    /\ mg_created = <<>>
    /\ mg_log = <<>>
    /\ ra_pc = "none"
    /\ ra_arch = "none"
    /\ ra_mode = "none"
    /\ ra_files = {}
    /\ ra_ret = "none"

NextManager ==
    \/ MgCreateAgent
    \/ MgCleanup
    \/ MgExit

SpecManager == InitManager /\ [][NextManager]_vars

\* ----------------------------------------------------- the backend raises

\* The positions at which research() is inside a role invocation.
Invoking ==
    {"researcher", "critic", "planner", "worker", "replan", "synthesizer"}

\* responses.create raises during the role invocation under way: nothing in
\* run_agent or research() catches it.
BackendFails ==
    /\ pc \in Invoking
    /\ pc' = "raised"
    /\ exc' = "BackendError"
    /\ UNCHANGED <<arch, data_sources, rnd, research_output, feedback, plan,
                   widx, round_findings, all_findings, replans, critique, calls,
                   result>>
    /\ UNCHANGED beyondOrch

InitBackend == Init \/ InitHybrid

NextBackend ==
    \/ Next
    \/ NextHybrid
    \/ BackendFails

SpecBackend == InitBackend /\ [][NextBackend]_vars

\* ------------------------------------------------------ evaluation: numbers

\* A score is written as the exact fraction the code divides or parses:
\* Ratio(80, 150) for 80 / 150, Ratio(7, 10) for the literal 0.7. The float a
\* Python expression holds is the double nearest to that fraction, Double(q).
RECURSIVE GCD(_, _)
GCD(a, b) == IF b = 0 THEN a ELSE GCD(b, a % b)

\* The fraction a / b in lowest terms (a >= 0, b > 0).
Ratio(a, b) == [num |-> a \div GCD(a, b), den |-> b \div GCD(a, b)]

RatioLess(p, q) == p.num * q.den < q.num * p.den

RatioLessEq(p, q) == p.num * q.den <= q.num * p.den

ScoreZero == Ratio(0, 1)

ScoreOne == Ratio(1, 1)

\* The doubles are kept as natural numbers in units of 2^-75, written with
\* six limbs of 15 bits, least significant first; the last limb is not
\* reduced. Every double from 2^-22 to 2^15 is such a number.
LimbBase == 2^15

Limbs == 1..6

Precision == 53

BigOf(n, pos) == [i \in Limbs |-> IF i = pos THEN n ELSE 0]

BigZero == BigOf(0, 1)

RECURSIVE AddCarry(_, _, _)
AddCarry(x, y, i) ==
    IF i = 1 THEN 0
    ELSE (x[i - 1] + y[i - 1] + AddCarry(x, y, i - 1)) \div LimbBase

BigAdd(x, y) ==
    [i \in Limbs |->
        IF i = 6 THEN x[i] + y[i] + AddCarry(x, y, i)
        ELSE (x[i] + y[i] + AddCarry(x, y, i)) % LimbBase]

RECURSIVE MulCarry(_, _, _)
MulCarry(x, n, i) ==
    IF i = 1 THEN 0
    ELSE (x[i - 1] * n + MulCarry(x, n, i - 1)) \div LimbBase

\* x * n for 0 <= n <= 2^15
BigMul(x, n) ==
    [i \in Limbs |->
        IF i = 6 THEN x[i] * n + MulCarry(x, n, i)
        ELSE (x[i] * n + MulCarry(x, n, i)) % LimbBase]

\* The limbs above limb i, as a number, modulo n.
RECURSIVE RemAbove(_, _, _)
RemAbove(x, n, i) ==
    IF i = 6 THEN 0
    ELSE (RemAbove(x, n, i + 1) * LimbBase + x[i + 1]) % n

\* x // n and x % n for 0 < n < 2^16
BigDiv(x, n) ==
    [i \in Limbs |-> (RemAbove(x, n, i) * LimbBase + x[i]) \div n]

BigRem(x, n) == RemAbove(x, n, 0)

BigLess(x, y) ==
    \E i \in Limbs : x[i] < y[i] /\ \A j \in Limbs : j > i => x[j] = y[j]

RECURSIVE BitLen(_)
BitLen(n) == IF n = 0 THEN 0 ELSE 1 + BitLen(n \div 2)

BigBitLen(x) ==
    IF x = BigZero THEN 0
    ELSE LET h == CHOOSE i \in Limbs :
                      x[i] # 0 /\ \A j \in Limbs : j > i => x[j] = 0
         IN 15 * (h - 1) + BitLen(x[h])

\* x // 2^k and x * 2^k
ShiftRight(x, k) ==
    BigDiv([i \in Limbs |-> IF i + (k \div 15) <= 6
                            THEN x[i + (k \div 15)] ELSE 0],
           2^(k % 15))

ShiftLeft(x, k) ==
    BigMul([i \in Limbs |-> IF i - (k \div 15) >= 1
                            THEN x[i - (k \div 15)] ELSE 0],
           2^(k % 15))

\* The double nearest to x, or to a number just above x when inexact is
\* true, ties going to the even mantissa (IEEE 754 round-half-even).
RoundToDouble(x, inexact) ==
    IF BigBitLen(x) <= Precision THEN x
    ELSE LET k == BigBitLen(x) - Precision
             q == ShiftRight(x, k)
             guard == ShiftRight(x, k - 1)[1] % 2 = 1
             below == inexact \/ x # ShiftLeft(ShiftRight(x, k - 1), k - 1)
             up == guard /\ (below \/ q[1] % 2 = 1)
         IN ShiftLeft(IF up THEN BigAdd(q, BigOf(1, 1)) ELSE q, k)

\* float(q): the literal or the quotient num / den as a double.
Double(q) ==
    RoundToDouble(BigDiv(BigOf(q.num, 6), q.den),
                  BigRem(BigOf(q.num, 6), q.den) # 0)

\* x + y and x / n on doubles
FloatAdd(x, y) == RoundToDouble(BigAdd(x, y), FALSE)

FloatDiv(x, n) == RoundToDouble(BigDiv(x, n), BigRem(x, n) # 0)

RECURSIVE SubBorrow(_, _, _)
SubBorrow(x, y, i) ==
    IF i = 1 THEN 0
    ELSE IF x[i - 1] - y[i - 1] - SubBorrow(x, y, i - 1) < 0 THEN 1 ELSE 0

\* x - y for x >= y
BigSub(x, y) ==
    [i \in Limbs |->
        IF i = 6 THEN x[i] - y[i] - SubBorrow(x, y, i)
        ELSE (x[i] - y[i] - SubBorrow(x, y, i) + LimbBase) % LimbBase]

FloatSub(x, y) == RoundToDouble(BigSub(x, y), FALSE)

\* round(x, d) and f"{x:.df}" in units of 10^-d: the integer nearest to the
\* exact units * x, a tie going to the even one.
RoundTo(x, units) ==
    LET y == BigMul(x, units)
        frac == [y EXCEPT ![6] = 0]
        half == BigOf(LimbBase \div 2, 5)
    IN IF BigLess(half, frac) \/ (frac = half /\ y[6] % 2 = 1)
       THEN y[6] + 1 ELSE y[6]

RoundHundredths(x) == RoundTo(x, 100)

\* ------------------------------------------------------ evaluation: texts

\* The texts of the evaluation package (patterns, assertions, answers,
\* source names) are sequences of characters.

UpperCase ==
    <<"A", "B", "C", "D", "E", "F", "G", "H", "I", "J", "K", "L", "M",
      "N", "O", "P", "Q", "R", "S", "T", "U", "V", "W", "X", "Y", "Z">>

LowerCase ==
    <<"a", "b", "c", "d", "e", "f", "g", "h", "i", "j", "k", "l", "m",
      "n", "o", "p", "q", "r", "s", "t", "u", "v", "w", "x", "y", "z">>

Digit == <<"0", "1", "2", "3", "4", "5", "6", "7", "8", "9">>

\* The words the step patterns and the assertions of the scenarios are
\* written with.
Word ==
    [
      the |-> <<"t","h","e">>,
      answer |-> <<"a","n","s","w","e","r">>,
      should |-> <<"s","h","o","u","l","d">>,
      mention |-> <<"m","e","n","t","i","o","n">>,
      not |-> <<"n","o","t">>,
      there |-> <<"t","h","e","r","e">>,
      be |-> <<"b","e">>,
      at |-> <<"a","t">>,
      least |-> <<"l","e","a","s","t">>,
      sources |-> <<"s","o","u","r","c","e","s">>,
      include |-> <<"i","n","c","l","u","d","e">>,
      documents |-> <<"d","o","c","u","m","e","n","t","s">>,
      retrieved |-> <<"r","e","t","r","i","e","v","e","d">>,
      completion |-> <<"c","o","m","p","l","e","t","i","o","n">>,
      time |-> <<"t","i","m","e">>,
      under |-> <<"u","n","d","e","r">>,
      azure |-> <<"a","z","u","r","e">>,
      relevance |-> <<"r","e","l","e","v","a","n","c","e">>,
      score |-> <<"s","c","o","r","e">>,
      coherence |-> <<"c","o","h","e","r","e","n","c","e">>,
      groundedness |-> <<"g","r","o","u","n","d","e","d","n","e","s","s">>,
      fluency |-> <<"f","l","u","e","n","c","y">>,
      water |-> <<"w","a","t","e","r">>,
      three |-> <<"t","h","r","e","e">>,
      citations |-> <<"c","i","t","a","t","i","o","n","s">>,
      characters |-> <<"c","h","a","r","a","c","t","e","r","s">>,
      unknown |-> <<"u","n","k","n","o","w","n">>,
      assertion |-> <<"a","s","s","e","r","t","i","o","n">>,
      comprehensive |-> <<"c","o","m","p","r","e","h","e","n","s","i","v","e">>,
      The |-> <<"T","h","e">>,
      ANSWER |-> <<"A","N","S","W","E","R">>,
      shoulder |-> <<"s","h","o","u","l","d","e","r">>,
      search_govinfo |-> <<"s","e","a","r","c","h","_","g","o","v","i","n","f","o">>,
      EPA |-> <<"E","P","A">>,
      regulations |-> <<"r","e","g","u","l","a","t","i","o","n","s">>,
      on |-> <<"o","n">>,
      clean |-> <<"c","l","e","a","n">>,
      standards |-> <<"s","t","a","n","d","a","r","d","s">>,
      Federal |-> <<"F","e","d","e","r","a","l">>,
      Register |-> <<"R","e","g","i","s","t","e","r">>,
      text |-> <<"t","e","x","t">>,
      GovInfo |-> <<"G","o","v","I","n","f","o">>,
      Data_gov |-> <<"D","a","t","a",".","g","o","v">>,
      search_ |-> <<"s","e","a","r","c","h","_">>
    ]

\* A text written as words separated by one space.
RECURSIVE Text(_)
Text(ws) ==
    IF ws = <<>> THEN <<>>
    ELSE IF Len(ws) = 1 THEN ws[1]
    ELSE ws[1] \o <<" ">> \o Text(Tail(ws))

\* The lower-case letter of every upper-case letter.
ToLower ==
    [c \in {UpperCase[k] : k \in DOMAIN UpperCase} |->
        LowerCase[CHOOSE k \in DOMAIN UpperCase : UpperCase[k] = c]]

\* str.lower()
Lower(s) ==
    [i \in DOMAIN s |-> IF s[i] \in DOMAIN ToLower THEN ToLower[s[i]] ELSE s[i]]

\* s.startswith(p)
StartsWith(s, p) == Len(p) <= Len(s) /\ SubSeq(s, 1, Len(p)) = p

\* sub in s
Contains(s, sub) ==
    \E i \in 0..(Len(s) - Len(sub)) : SubSeq(s, i + 1, i + Len(sub)) = sub

IsDigit(c) == \E k \in DOMAIN Digit : Digit[k] = c

\* The number a run of digits denotes.
RECURSIVE DigitsValue(_)
DigitsValue(s) ==
    IF s = <<>> THEN 0
    ELSE DigitsValue(SubSeq(s, 1, Len(s) - 1)) * 10
         + (CHOOSE k \in DOMAIN Digit : Digit[k] = s[Len(s)]) - 1

\* str(n) of a natural number
RECURSIVE IntChars(_)
IntChars(n) ==
    IF n < 10 THEN <<Digit[n + 1]>>
    ELSE IntChars(n \div 10) \o <<Digit[(n % 10) + 1]>>

\* The extra arguments of then(): an int or a str.
IntArg(n) == [kind |-> "int", n |-> n, chars |-> <<>>]
StrArg(s) == [kind |-> "str", n |-> 0, chars |-> s]

\* str(args[0])
Str(v) == IF v.kind = "int" THEN IntChars(v.n) ELSE v.chars

\* int(args[0]) and float(args[0]) return for an int and for a str made of
\* digits, and raise ValueError for the other strs of the model.
CanInt(v) ==
    \/ v.kind = "int"
    \/ v.chars # <<>> /\ \A i \in DOMAIN v.chars : IsDigit(v.chars[i])

IntOf(v) == IF v.kind = "int" THEN v.n ELSE DigitsValue(v.chars)

\* _extract_number: the first run of digits of the text, 0 without a digit.
ExtractNumber(text) ==
    IF \A i \in DOMAIN text : ~IsDigit(text[i]) THEN 0
    ELSE LET i == CHOOSE a \in DOMAIN text :
                      /\ IsDigit(text[a])
                      /\ \A b \in 1..(a - 1) : ~IsDigit(text[b])
             j == CHOOSE c \in i..Len(text) :
                      /\ \A b \in i..c : IsDigit(text[b])
                      /\ (c = Len(text) \/ ~IsDigit(text[c + 1]))
         IN DigitsValue(SubSeq(text, i, j))

\* -------------------------------------------------------------- citations

\* The last place of the run of digits that starts at place i (i - 1 when
\* the character at i is no digit).
DigitRunEnd(answer, i) ==
    CHOOSE j \in (i - 1)..Len(answer) :
        /\ \A b \in i..j : IsDigit(answer[b])
        /\ (j = Len(answer) \/ ~IsDigit(answer[j + 1]))

\* A match of r"\[(\d+)\]" starts at place i. No two matches overlap: a
\* match holds one "[" only, its first character.
MarkerAt(answer, i) ==
    /\ answer[i] = "["
    /\ DigitRunEnd(answer, i + 1) > i
    /\ DigitRunEnd(answer, i + 1) < Len(answer)
    /\ answer[DigitRunEnd(answer, i + 1) + 1] = "]"

\* sorted(S) of a set of numbers
RECURSIVE Sorted(_)
Sorted(S) ==
    IF S = {} THEN <<>>
    ELSE LET least == CHOOSE x \in S : \A y \in S : x <= y
         IN <<least>> \o Sorted(S \ {least})

\* re.findall(r"\[(\d+)\]", answer): the digits of every marker, from left
\* to right.
FindAll(answer) ==
    LET starts == Sorted({i \in DOMAIN answer : MarkerAt(answer, i)})
    IN [k \in DOMAIN starts |->
           SubSeq(answer, starts[k] + 1, DigitRunEnd(answer, starts[k] + 1))]

\* A citation list in the order the markers appear, repeats kept.
extract_citations_unsorted(answer) ==
    [k \in DOMAIN FindAll(answer) |->
        [number |-> IntChars(DigitsValue(FindAll(answer)[k]))]]

\* extract_citations: sorted(set(int(m) for m in findall)), each number as
\* {"number": str(n)}.
extract_citations(answer) ==
    LET numbers == Sorted({DigitsValue(FindAll(answer)[k]) :
                              k \in DOMAIN FindAll(answer)})
    IN [k \in DOMAIN numbers |-> [number |-> IntChars(numbers[k])]]

\* _count_citations: len(set(findall)), the distinct marker texts.
count_citations(answer) ==
    Cardinality({FindAll(answer)[k] : k \in DOMAIN FindAll(answer)})

\* ------------------------------------------------ evaluation: the step table

\* A StepResult; step_text is left out. A step function that raises has no
\* StepResult: Raised(e) stands for the exception that leaves it.
StepResult(score, metric, detail, is_llm_judged) ==
    [kind |-> "StepResult", score |-> score, metric |-> metric,
     detail |-> detail, is_llm_judged |-> is_llm_judged]

Raised(e) ==
    [kind |-> "raise", score |-> ScoreZero, metric |-> "", detail |-> e,
     is_llm_judged |-> FALSE]

\* A score that is not capped at 1.0.
ScaleUncapped(actual, n) == IF n > 0 THEN Ratio(actual, n) ELSE ScoreOne

\* min(actual / n, 1.0) if n > 0 else 1.0
Scale(actual, n) ==
    IF n > 0
    THEN IF actual < n THEN Ratio(actual, n) ELSE ScoreOne
    ELSE ScoreOne

\* The number of a threshold step: int(args[0]) if args else
\* _extract_number(assertion).
Threshold(assertion, args) ==
    IF args # <<>> THEN IntOf(args[1]) ELSE ExtractNumber(assertion)

answer_should_mention(assertion, args, output) ==
    LET phrase == IF args # <<>> THEN Str(args[1]) ELSE <<>>
        found == Contains(Lower(output.answer), Lower(phrase))
    IN StepResult(IF found THEN ScoreOne ELSE ScoreZero, "relevance",
                  IF found THEN "" ELSE "not found in answer", FALSE)

answer_should_not_mention(assertion, args, output) ==
    LET phrase == IF args # <<>> THEN Str(args[1]) ELSE <<>>
        found == Contains(Lower(output.answer), Lower(phrase))
    IN StepResult(IF found THEN ScoreZero ELSE ScoreOne, "relevance",
                  IF found THEN "was found in answer" ELSE "", FALSE)

\* A citation step without partial credit.
min_citations_all_or_nothing(assertion, args, output) ==
    IF args # <<>> /\ ~CanInt(args[1]) THEN Raised("ValueError")
    ELSE StepResult(IF output.citations_count >= Threshold(assertion, args)
                    THEN ScoreOne ELSE ScoreZero,
                    "groundedness", "actual/n", FALSE)

min_citations(assertion, args, output) ==
    IF args # <<>> /\ ~CanInt(args[1]) THEN Raised("ValueError")
    ELSE StepResult(Scale(output.citations_count, Threshold(assertion, args)),
                    "groundedness", "actual/n", FALSE)

min_length(assertion, args, output) ==
    IF args # <<>> /\ ~CanInt(args[1]) THEN Raised("ValueError")
    ELSE StepResult(Scale(Len(output.answer), Threshold(assertion, args)),
                    "relevance", "actual/n", FALSE)

\* A variant of sources_include that looks for the target as written only.
sources_include_as_written(assertion, args, output) ==
    LET source == IF args # <<>> THEN Str(args[1]) ELSE <<>>
        found == \E k \in DOMAIN output.sources_used :
                     Contains(Lower(output.sources_used[k]), Lower(source))
    IN StepResult(IF found THEN ScoreOne ELSE ScoreZero, "coverage",
                  IF found THEN "" ELSE "sources used", FALSE)

sources_include(assertion, args, output) ==
    LET source == IF args # <<>> THEN Str(args[1]) ELSE <<>>
        underscored == [i \in DOMAIN source |->
                           IF Lower(source)[i] = " " THEN "_"
                           ELSE Lower(source)[i]]
        source_lower == SelectSeq(underscored, LAMBDA c : c # ".")
        found == \E k \in DOMAIN output.sources_used :
                     \/ Contains(Lower(output.sources_used[k]), Lower(source))
                     \/ Contains(Lower(output.sources_used[k]), source_lower)
    IN StepResult(IF found THEN ScoreOne ELSE ScoreZero, "coverage",
                  IF found THEN "" ELSE "sources used", FALSE)

min_documents(assertion, args, output) ==
    IF args # <<>> /\ ~CanInt(args[1]) THEN Raised("ValueError")
    ELSE StepResult(Scale(output.documents_retrieved,
                          Threshold(assertion, args)),
                    "coverage", "actual/n", FALSE)

\* A latency score that reaches 0.0 at the threshold already.
LatencyRawSteep(actual, threshold) ==
    IF actual.num >= threshold * actual.den THEN BigZero
    ELSE FloatSub(Double(ScoreOne), FloatDiv(Double(actual), threshold))

\* The score before rounding, a double: 0.0 if actual >= threshold * 2, else
\* max(0.0, 1.0 - actual / (threshold * 2)). The elapsed time actual is a
\* fraction of seconds, the threshold a whole number.
LatencyRaw(actual, threshold) ==
    IF actual.num >= threshold * 2 * actual.den THEN BigZero
    ELSE FloatSub(Double(ScoreOne), FloatDiv(Double(actual), threshold * 2))

\* round(score, 2)
LatencyScore(actual, threshold) ==
    Ratio(RoundHundredths(LatencyRaw(actual, threshold)), 100)

\* check_latency of promptfoo_helpers: the cached completion time against
\* the threshold.
check_latency(actual, threshold) ==
    [pass |-> BigLess(Double(Ratio(1, 2)), LatencyRaw(actual, threshold)),
     score |-> LatencyScore(actual, threshold)]

max_time(assertion, args, output) ==
    IF args # <<>> /\ ~CanInt(args[1]) THEN Raised("ValueError")
    ELSE LET threshold == Threshold(assertion, args)
             actual == output.completion_time
         IN StepResult(LatencyScore(actual, threshold),
                       "latency", "actual (threshold)", FALSE)

\* The judged steps report the score of the judge's verdict.
answer_quality(assertion, args, output, llm_judge) ==
    StepResult(llm_judge.score, "quality", llm_judge.detail, TRUE)

answer_should(assertion, args, output, llm_judge) ==
    StepResult(llm_judge.score, "quality", llm_judge.detail, TRUE)

azure_relevance(assertion, args, output, azure_evaluators) ==
    StepResult(azure_evaluators.score, "relevance", azure_evaluators.detail, TRUE)

azure_coherence(assertion, args, output, azure_evaluators) ==
    StepResult(azure_evaluators.score, "quality", azure_evaluators.detail, TRUE)

azure_groundedness(assertion, args, output, azure_evaluators) ==
    StepResult(azure_evaluators.score, "groundedness", azure_evaluators.detail, TRUE)

azure_fluency(assertion, args, output, azure_evaluators) ==
    StepResult(azure_evaluators.score, "quality", azure_evaluators.detail, TRUE)

\* One entry of _STEP_DEFS, as the decorator step() appends it.
StepDef(pattern, fn, is_llm, is_azure_eval) ==
    [pattern |-> pattern, fn |-> fn, is_llm |-> is_llm,
     is_azure_eval |-> is_azure_eval]

\* A registry in which the judged steps come before the steps whose patterns
\* they are a prefix of.
STEP_DEFS_GeneralFirst ==
    <<StepDef(Text(<<Word.the, Word.answer, Word.should>>),
              "_answer_should", TRUE, FALSE),
      StepDef(Text(<<Word.the, Word.answer, Word.should, Word.be>>),
              "_answer_quality", TRUE, FALSE),
      StepDef(Text(<<Word.the, Word.answer, Word.should, Word.mention>>),
              "_answer_should_mention", FALSE, FALSE),
      StepDef(Text(<<Word.the, Word.answer, Word.should, Word.not,
                     Word.mention>>),
              "_answer_should_not_mention", FALSE, FALSE),
      StepDef(Text(<<Word.the, Word.answer, Word.should, Word.be, Word.at,
                     Word.least>>),
              "_min_length", FALSE, FALSE)>>

\* _STEP_DEFS after the module is imported: the step definitions in the order
\* of their decorators.
STEP_DEFS ==
    <<StepDef(Text(<<Word.the, Word.answer, Word.should, Word.mention>>),
              "_answer_should_mention", FALSE, FALSE),
      StepDef(Text(<<Word.the, Word.answer, Word.should, Word.not,
                     Word.mention>>),
              "_answer_should_not_mention", FALSE, FALSE),
      StepDef(Text(<<Word.there, Word.should, Word.be, Word.at, Word.least>>),
              "_min_citations", FALSE, FALSE),
      StepDef(Text(<<Word.the, Word.answer, Word.should, Word.be, Word.at,
                     Word.least>>),
              "_min_length", FALSE, FALSE),
      StepDef(Text(<<Word.sources, Word.should, Word.include>>),
              "_sources_include", FALSE, FALSE),
      StepDef(Text(<<Word.documents, Word.retrieved, Word.should, Word.be,
                     Word.at, Word.least>>),
              "_min_documents", FALSE, FALSE),
      StepDef(Text(<<Word.completion, Word.time, Word.should, Word.be,
                     Word.under>>),
              "_max_time", FALSE, FALSE),
      StepDef(Text(<<Word.the, Word.answer, Word.should, Word.be>>),
              "_answer_quality", TRUE, FALSE),
      StepDef(Text(<<Word.the, Word.answer, Word.should>>),
              "_answer_should", TRUE, FALSE),
      StepDef(Text(<<Word.azure, Word.relevance, Word.score>>),
              "_azure_relevance", FALSE, TRUE),
      StepDef(Text(<<Word.azure, Word.coherence, Word.score>>),
              "_azure_coherence", FALSE, TRUE),
      StepDef(Text(<<Word.azure, Word.groundedness, Word.score>>),
              "_azure_groundedness", FALSE, TRUE),
      StepDef(Text(<<Word.azure, Word.fluency, Word.score>>),
              "_azure_fluency", FALSE, TRUE)>>

\* fn(assertion, args, output, llm_judge, azure_evaluators) for the step
\* function named fn.
StepFunction(fn, assertion, args, output, llm_judge, azure_evaluators) ==
    CASE fn = "_answer_should_mention" ->
            answer_should_mention(assertion, args, output)
      [] fn = "_answer_should_not_mention" ->
            answer_should_not_mention(assertion, args, output)
      [] fn = "_min_citations" -> min_citations(assertion, args, output)
      [] fn = "_min_length" -> min_length(assertion, args, output)
      [] fn = "_sources_include" -> sources_include(assertion, args, output)
      [] fn = "_min_documents" -> min_documents(assertion, args, output)
      [] fn = "_max_time" -> max_time(assertion, args, output)
      [] fn = "_answer_quality" ->
            answer_quality(assertion, args, output, llm_judge)
      [] fn = "_answer_should" ->
            answer_should(assertion, args, output, llm_judge)
      [] fn = "_azure_relevance" ->
            azure_relevance(assertion, args, output, azure_evaluators)
      [] fn = "_azure_coherence" ->
            azure_coherence(assertion, args, output, azure_evaluators)
      [] fn = "_azure_groundedness" ->
            azure_groundedness(assertion, args, output, azure_evaluators)
      [] fn = "_azure_fluency" ->
            azure_fluency(assertion, args, output, azure_evaluators)

\* _infer_metric
InferMetric(pattern) ==
    IF \/ Contains(pattern, Word.relevance)
       \/ Contains(pattern, <<"r", "e", "l", "e", "v", "a", "n", "t">>)
    THEN "relevance"
    ELSE IF \/ Contains(pattern, Word.groundedness)
            \/ Contains(pattern, <<"g", "r", "o", "u", "n", "d", "e", "d">>)
         THEN "groundedness"
         ELSE "quality"

\* A judge or the evaluators that were not supplied (None), and supplied
\* ones: raw is the score the model behind them reported, as a fraction (for
\* the LLM judge any number, 3.0 is Ratio(3,1); for the Azure evaluators a
\* number on their 1-5 scale), score is the score their methods return to the
\* step function.
NotSupplied ==
    [configured |-> FALSE, raw |-> ScoreZero, score |-> ScoreZero,
     detail |-> "", failure |-> "none"]

\* detail is the "reasoning" (LLM judge) or "detail" (Azure evaluators) of
\* the dict returned; failure says what made the except clause run.
Supplied(raw, score, detail, failure) ==
    [configured |-> TRUE, raw |-> raw, score |-> score, detail |-> detail,
     failure |-> failure]

\* What makes a judge or an evaluator fail: the call of its backend raises,
\* or the text that came back is not the JSON object expected.
Failures == {"raises", "unparseable"}

\* max(0.0, min(1.0, x))
Clamp(x) ==
    IF x.num < 0 THEN ScoreZero
    ELSE IF RatioLess(ScoreOne, x) THEN ScoreOne ELSE x

\* LLMJudge._judge: the reported score, clamped to [0,1].
LLMJudge(raw) == Supplied(raw, Clamp(raw), "reasoning", "none")

\* A variant of LLMJudgeFails in which a failed judgment counts as passed.
LLMJudgeFailsOpen(failure) ==
    Supplied(ScoreZero, ScoreOne, "Judge error", failure)

\* LLMJudge._judge when responses.create, output_text, json.loads, .get or
\* float raises: the except clause returns score 0.0 and the error as the
\* reasoning.
LLMJudgeFails(failure) ==
    Supplied(ScoreZero, ScoreZero, "Judge error", failure)

\* AzureEvaluators._normalize: max(0.0, min(1.0, (score - 1) / 4))
Normalize(raw) == Clamp(Ratio(raw.num - raw.den, 4 * raw.den))

\* AzureEvaluators.evaluate_*: the normalized score of the evaluator.
AzureEvaluators(raw) == Supplied(raw, Normalize(raw), "detail", "none")

\* AzureEvaluators.evaluate_* when the evaluator cannot be built or its call
\* raises: the except clause returns score 0.0, raw 0 and the error as the
\* detail.
AzureEvaluatorsFail(failure) ==
    Supplied(ScoreZero, ScoreZero, "error", failure)

\* A skipped step scored as a failed step.
SkippedAsFailed(metric, detail) == StepResult(ScoreZero, metric, detail, TRUE)

\* The StepResult match_step returns for a judged step whose judge is None:
\* score 1.0, is_llm_judged True.
Skipped(metric, detail) == StepResult(ScoreOne, metric, detail, TRUE)

\* An unmatched assertion scored as a passed step.
NoStepDefinitionPasses ==
    StepResult(ScoreOne, "", "No step definition found", FALSE)

\* The StepResult match_step returns when no pattern matches: score 0.0.
NoStepDefinition ==
    StepResult(ScoreZero, "", "No step definition found", FALSE)

\* match_step from entry i of the registry on: the value it returns (or the
\* exception that leaves it) and the step functions it called.
RECURSIVE MatchFrom(_, _, _, _, _, _)
MatchFrom(i, assertion, args, output, llm_judge, azure_evaluators) ==
    IF i > Len(STEP_DEFS)
    THEN [result |-> NoStepDefinition, entry |-> 0, executed |-> <<>>]
    ELSE IF StartsWith(Lower(assertion), Lower(STEP_DEFS[i].pattern))
         THEN IF STEP_DEFS[i].is_llm /\ ~llm_judge.configured
              THEN [result |-> Skipped("quality",
                                   "Skipped (no LLM judge configured)"),
                    entry |-> i, executed |-> <<>>]
              ELSE IF STEP_DEFS[i].is_azure_eval
                      /\ ~azure_evaluators.configured
                   THEN [result |->
                             Skipped(InferMetric(STEP_DEFS[i].pattern),
                                 "Skipped (Azure evaluators not configured)"),
                         entry |-> i, executed |-> <<>>]
                   ELSE [result |->
                             StepFunction(STEP_DEFS[i].fn, assertion, args,
                                 output, llm_judge, azure_evaluators),
                         entry |-> i, executed |-> <<STEP_DEFS[i].fn>>]
         ELSE MatchFrom(i + 1, assertion, args, output, llm_judge,
                        azure_evaluators)

match_step(assertion, args, output, llm_judge, azure_evaluators) ==
    MatchFrom(1, assertion, args, output, llm_judge, azure_evaluators)

\* ---------------------------------------------------- evaluation: the runner

\* ResearchOutput: what run_scenario hands to the step functions.
ResearchOutput(answer, completion_time, documents, citations, sources) ==
    [answer |-> answer, completion_time |-> completion_time,
     documents_retrieved |-> documents, citations_count |-> citations,
     sources_used |-> sources]

\* The outputs research() returns in the model: an answer about water with
\* two citations, and an empty answer.
Outputs ==
    {ResearchOutput(Text(<<Word.water, Word.the, Word.answer>>),
                    Ratio(10, 1), 4, 2,
                    <<Word.search_govinfo>>),
     ResearchOutput(<<>>, ScoreZero, 0, 0, <<>>)}

NoOutput == ResearchOutput(<<>>, ScoreZero, 0, 0, <<>>)

\* The scenario of the worked example: five deterministic assertions on a
\* query about clean water.
ExampleQuery ==
    Text(<<Word.EPA, Word.regulations, Word.on, Word.clean, Word.water,
           Word.standards>>)

ExampleThens ==
    <<[assertion |-> Text(<<Word.the, Word.answer, Word.should, Word.mention>>),
       args |-> <<StrArg(Word.water)>>],
      [assertion |-> Text(<<Word.there, Word.should, Word.be, Word.at,
                            Word.least, IntChars(2), Word.citations>>),
       args |-> <<IntArg(2)>>],
      [assertion |-> Text(<<Word.the, Word.answer, Word.should, Word.be,
                            Word.at, Word.least, IntChars(150),
                            Word.characters>>),
       args |-> <<IntArg(150)>>],
      [assertion |-> Text(<<Word.sources, Word.should, Word.include>>),
       args |-> <<StrArg(Text(<<Word.Federal, Word.Register>>))>>],
      [assertion |-> Text(<<Word.documents, Word.retrieved, Word.should,
                            Word.be, Word.at, Word.least>>),
       args |-> <<IntArg(3)>>]>>

\* The text s followed by filler up to n characters.
Padded(s, n) == [i \in 1..n |-> IF i <= Len(s) THEN s[i] ELSE "."]

Markers123 == <<"[", "1", "]", "[", "2", "]", "[", "3", "]">>

\* The answers of the example: 180 or 80 characters that mention water, with
\* the markers [1][2][3] or without a marker.
ExampleAnswers ==
    {Padded(Text(<<Word.water, Markers123>>), 180),
     Padded(Text(<<Word.water>>), 180),
     Padded(Text(<<Word.water, Markers123>>), 80),
     Padded(Text(<<Word.water>>), 80)}

\* run_scenario's normalization of a ResearchResult whose citations are
\* those extracted from its answer: citations_count = len(result.citations).
Normalized(answer, elapsed, documents, sources) ==
    ResearchOutput(answer, elapsed, documents, Len(extract_citations(answer)),
                   sources)

ExampleOutputs ==
    {Normalized(a, Ratio(10, 1), d, <<Text(<<Word.Federal, Word.Register>>)>>) :
        a \in ExampleAnswers, d \in {4, 2}}

\* The outputs the architecture returns for a query.
Research(query) == IF query = ExampleQuery THEN ExampleOutputs ELSE Outputs

\* scenario.query when given("a query", ...) was never called or was called
\* with an empty text: both are falsy.
NoQuery == <<>>

\* The (assertion, args) pairs then() records in the scenarios of the model: a
\* keyword assertion written with capitals, a threshold assertion whose
\* argument is not a number, and an assertion no pattern matches.
EvalThens ==
    {[assertion |-> Text(<<Word.The, Word.ANSWER, Word.should, Word.mention>>),
      args |-> <<StrArg(Word.water)>>],
     [assertion |-> Text(<<Word.there, Word.should, Word.be, Word.at,
                           Word.least>>),
      args |-> <<StrArg(Word.three)>>],
     [assertion |-> Text(<<Word.unknown, Word.assertion>>), args |-> <<>>]}

\* The lists of assertions of the scenarios: none, one or two assertions.
ThenLists ==
    {<<>>} \cup {<<x>> : x \in EvalThens}
           \cup {<<x, y>> : x \in EvalThens, y \in EvalThens}

\* The lists of at most n elements of S.
RECURSIVE ListsUpTo(_, _)
ListsUpTo(S, n) ==
    IF n = 0 THEN {<<>>}
    ELSE ListsUpTo(S, n - 1)
         \cup {Append(l, x) : l \in {m \in ListsUpTo(S, n - 1) : Len(m) = n - 1},
                              x \in S}

\* A ScenarioBuilder after its definition ran, without its id: a scenario with
\* a query and any assertions, or a scenario without query.
ScenarioBodies ==
    {[query |-> Word.water, thens |-> t] : t \in ThenLists}
    \cup {[query |-> NoQuery, thens |-> <<x>>] : x \in EvalThens}

\* The lists of scenarios run_all is called with; the id of a scenario is its
\* place in the list.
ScenarioLists ==
    {[i \in DOMAIN l |-> [scenario_id |-> i, query |-> l[i].query,
                          thens |-> l[i].thens]] :
        l \in ListsUpTo(ScenarioBodies, MaxScenarios) \ {<<>>}}

NoError == "None"

\* ScenarioResult; the name, category, architecture and elapsed time are left
\* out.
ScenarioResult(scenario, steps, output, error) ==
    [scenario_id |-> scenario.scenario_id, steps |-> steps,
     documents_retrieved |-> output.documents_retrieved,
     citations_count |-> output.citations_count,
     sources_used |-> output.sources_used, answer |-> output.answer,
     error |-> error]

\* An errored result that keeps the credit of one step.
ErroredPartial(scenario, error) ==
    ScenarioResult(scenario,
                   <<StepResult(ScoreOne, "quality", "partial", FALSE)>>,
                   NoOutput, error)

\* The ScenarioResult of run_scenario's two early returns carries the
\* defaults of the dataclass: no steps, no answer.
Errored(scenario, error) == ScenarioResult(scenario, <<>>, NoOutput, error)

\* sum(s.score for s in steps): float additions from the left, from 0.
RECURSIVE SumScores(_)
SumScores(steps) ==
    IF steps = <<>> THEN BigZero
    ELSE FloatAdd(SumScores(SubSeq(steps, 1, Len(steps) - 1)),
                  Double(steps[Len(steps)].score))

\* An overall score that is the score of the weakest step.
overall_score_weakest(r) ==
    IF r.steps = <<>> THEN BigZero
    ELSE Double(CHOOSE q \in {r.steps[k].score : k \in DOMAIN r.steps} :
                    \A k \in DOMAIN r.steps : RatioLessEq(q, r.steps[k].score))

\* ScenarioResult.overall_score: 0.0 without steps, else sum / len, a double.
overall_score(r) ==
    IF r.steps = <<>> THEN BigZero
    ELSE FloatDiv(SumScores(r.steps), Len(r.steps))

\* ScenarioResult.passed: overall_score >= 0.7
passed(r) == ~BigLess(overall_score(r), Double(Ratio(7, 10)))

\* The scenario run_all is at.
Current == ev_scenarios[Len(ev_results) + 1]

evalRest ==
    <<ms_pc, ms_assertion, ms_args, ms_ret, ev_judge, ev_azure, scoreVars,
      citeVars>>

\* run_scenario of a scenario without query: research() is not called.
RunScenarioNoQuery ==
    /\ ev_pc = "run_all"
    /\ Len(ev_results) < Len(ev_scenarios)
    /\ Current.query = NoQuery
    /\ ev_results' = Append(ev_results,
                            Errored(Current, "No query defined in scenario"))
    /\ UNCHANGED <<ev_scenarios, ev_pc, ev_steps, ev_output, ev_researched>>
    /\ UNCHANGED evalRest
    /\ UNCHANGED <<orchVars, hpOnly, agentVars, statsVars, thrVars, dispVars>>

\* architecture.research raises: the except clause of run_scenario returns an
\* errored result.
RunScenarioResearchRaises ==
    /\ ev_pc = "run_all"
    /\ Len(ev_results) < Len(ev_scenarios)
    /\ Current.query # NoQuery
    /\ ev_researched' = Append(ev_researched, Current.scenario_id)
    /\ ev_results' = Append(ev_results, Errored(Current, "research raised"))
    /\ UNCHANGED <<ev_scenarios, ev_pc, ev_steps, ev_output>>
    /\ UNCHANGED evalRest
    /\ UNCHANGED <<orchVars, hpOnly, agentVars, statsVars, thrVars, dispVars>>

\* architecture.research returns: run_scenario normalizes the output and comes
\* to its loop over the assertions.
RunScenarioResearch ==
    /\ ev_pc = "run_all"
    /\ Len(ev_results) < Len(ev_scenarios)
    /\ Current.query # NoQuery
    /\ ev_researched' = Append(ev_researched, Current.scenario_id)
    /\ \E o \in Research(Current.query) : ev_output' = o
    /\ ev_steps' = <<>>
    /\ ev_pc' = "scoring"
    /\ UNCHANGED <<ev_scenarios, ev_results>>
    /\ UNCHANGED evalRest
    /\ UNCHANGED <<orchVars, hpOnly, agentVars, statsVars, thrVars, dispVars>>

\* What match_step does with the next assertion of the scenario.
NextThen ==
    LET t == Current.thens[Len(ev_steps) + 1]
    IN match_step(t.assertion, t.args, ev_output, ev_judge, ev_azure).result

\* One turn of the loop over scenario._thens: match_step returns a StepResult.
RunScenarioThen ==
    /\ ev_pc = "scoring"
    /\ Len(ev_steps) < Len(Current.thens)
    /\ NextThen.kind = "StepResult"
    /\ ev_steps' = Append(ev_steps, NextThen)
    /\ UNCHANGED <<ev_scenarios, ev_pc, ev_results, ev_output, ev_researched>>
    /\ UNCHANGED evalRest
    /\ UNCHANGED <<orchVars, hpOnly, agentVars, statsVars, thrVars, dispVars>>

\* One turn of the loop over scenario._thens: the step function raises. The
\* loop is outside the try of run_scenario and run_all has no try: the
\* exception leaves run_all.
RunScenarioThenRaises ==
    /\ ev_pc = "scoring"
    /\ Len(ev_steps) < Len(Current.thens)
    /\ NextThen.kind = "raise"
    /\ ev_pc' = "raised"
    /\ UNCHANGED <<ev_scenarios, ev_results, ev_steps, ev_output,
                   ev_researched>>
    /\ UNCHANGED evalRest
    /\ UNCHANGED <<orchVars, hpOnly, agentVars, statsVars, thrVars, dispVars>>

\* run_scenario returns the scored result and run_all appends it.
RunScenarioReturn ==
    /\ ev_pc = "scoring"
    /\ Len(ev_steps) = Len(Current.thens)
    /\ ev_results' = Append(ev_results,
                            ScenarioResult(Current, ev_steps, ev_output,
                                           NoError))
    /\ ev_pc' = "run_all"
    /\ ev_steps' = <<>>
    /\ ev_output' = NoOutput
    /\ UNCHANGED <<ev_scenarios, ev_researched>>
    /\ UNCHANGED evalRest
    /\ UNCHANGED <<orchVars, hpOnly, agentVars, statsVars, thrVars, dispVars>>

\* run_all returns its list of results.
RunAllReturn ==
    /\ ev_pc = "run_all"
    /\ Len(ev_results) = Len(ev_scenarios)
    /\ ev_pc' = "returned"
    /\ UNCHANGED <<ev_scenarios, ev_results, ev_steps, ev_output,
                   ev_researched>>
    /\ UNCHANGED evalRest
    /\ UNCHANGED <<orchVars, hpOnly, agentVars, statsVars, thrVars, dispVars>>

NoReturn == [result |-> Raised("none"), entry |-> 0, executed |-> <<>>]

InitEval ==
    /\ OrchIdle
    /\ AgentIdle
    /\ StatsIdle
    /\ ThreadsIdle
    /\ DispatchIdle
    /\ StepsIdle
    /\ ScoreIdle
    /\ CiteIdle
    /\ ev_scenarios \in ScenarioLists
    /\ ev_pc = "run_all"
    /\ ev_results = <<>>
    /\ ev_steps = <<>>
    /\ ev_output = NoOutput
    /\ ev_researched = <<>>
    /\ ev_judge = NotSupplied
    /\ ev_azure = NotSupplied

NextEval ==
    \/ RunScenarioNoQuery
    \/ RunScenarioResearchRaises
    \/ RunScenarioResearch
    \/ RunScenarioThen
    \/ RunScenarioThenRaises
    \/ RunScenarioReturn
    \/ RunAllReturn

SpecEval == InitEval /\ [][NextEval]_vars

\* The scenario lists of the worked example: the example scenario, a
\* scenario without query and a scenario with an assertion that raises.
ExampleBodies ==
    {[query |-> ExampleQuery, thens |-> ExampleThens],
     [query |-> NoQuery, thens |-> <<ExampleThens[1]>>],
     [query |-> Word.water,
      thens |-> <<[assertion |-> Text(<<Word.there, Word.should, Word.be,
                                        Word.at, Word.least>>),
                   args |-> <<StrArg(Word.three)>>]>>]}

ExampleLists ==
    {[i \in DOMAIN l |-> [scenario_id |-> i, query |-> l[i].query,
                          thens |-> l[i].thens]] :
        l \in ListsUpTo(ExampleBodies, MaxScenarios) \ {<<>>}}

InitExample ==
    /\ OrchIdle
    /\ AgentIdle
    /\ StatsIdle
    /\ ThreadsIdle
    /\ DispatchIdle
    /\ StepsIdle
    /\ ScoreIdle
    /\ CiteIdle
    /\ ev_scenarios \in ExampleLists
    /\ ev_pc = "run_all"
    /\ ev_results = <<>>
    /\ ev_steps = <<>>
    /\ ev_output = NoOutput
    /\ ev_researched = <<>>
    /\ ev_judge = NotSupplied
    /\ ev_azure = NotSupplied

SpecExample == InitExample /\ [][NextEval]_vars

\* ------------------------------------------------- evaluation: match_step

\* The assertions match_step is called with: every pattern of the registry,
\* every pattern followed by a number and a word, and texts that differ from
\* the patterns in case or in their last characters.
Assertions ==
    {STEP_DEFS[i].pattern : i \in DOMAIN STEP_DEFS}
    \cup {STEP_DEFS[i].pattern \o <<" ", "3", "0", " ">> \o Word.characters :
             i \in DOMAIN STEP_DEFS}
    \cup {Text(<<Word.The, Word.ANSWER, Word.should, Word.be, Word.at,
                 Word.least>>),
          Text(<<Word.The, Word.ANSWER, Word.should, Word.not, Word.mention>>),
          Text(<<Word.the, Word.answer, Word.shoulder>>),
          Text(<<Word.the, Word.answer>>),
          Text(<<Word.unknown, Word.assertion>>)}

ArgLists == {<<>>, <<IntArg(2)>>, <<StrArg(Word.three)>>, <<StrArg(Word.water)>>}

Judges ==
    {NotSupplied, LLMJudge(Ratio(7, 10)), LLMJudge(Ratio(3, 1))}
    \cup {LLMJudgeFails(f) : f \in Failures}

\* self.azure_evaluators: None, or evaluators whose model reports 3 or 5.
Evaluators ==
    {NotSupplied, AzureEvaluators(Ratio(3, 1)), AzureEvaluators(Ratio(5, 1))}
    \cup {AzureEvaluatorsFail(f) : f \in Failures}

\* The assertions of the judged scenarios: one scored by the LLM judge, one
\* scored by the Azure evaluators, a keyword assertion and a threshold
\* assertion whose argument is not a number.
JudgedThens ==
    [quality |-> [assertion |-> Text(<<Word.the, Word.answer, Word.should,
                                      Word.be>>),
                  args |-> <<StrArg(Word.comprehensive)>>],
     relevance |-> [assertion |-> Text(<<Word.azure, Word.relevance,
                                        Word.score>>),
                    args |-> <<>>],
     mention |-> [assertion |-> Text(<<Word.the, Word.answer, Word.should,
                                      Word.mention>>),
                  args |-> <<StrArg(Word.water)>>],
     least |-> [assertion |-> Text(<<Word.there, Word.should, Word.be,
                                    Word.at, Word.least>>),
                args |-> <<StrArg(Word.three)>>]]

\* Scenarios with a judged assertion followed by a keyword assertion, a
\* scenario without query and a scenario with an assertion that raises.
JudgedBodies ==
    {[query |-> Word.water,
      thens |-> <<JudgedThens.quality, JudgedThens.mention>>],
     [query |-> Word.water,
      thens |-> <<JudgedThens.relevance, JudgedThens.mention>>],
     [query |-> NoQuery, thens |-> <<JudgedThens.quality>>],
     [query |-> Word.water, thens |-> <<JudgedThens.least>>]}

JudgedLists ==
    {[i \in DOMAIN l |-> [scenario_id |-> i, query |-> l[i].query,
                          thens |-> l[i].thens]] :
        l \in ListsUpTo(JudgedBodies, MaxScenarios) \ {<<>>}}

\* EvalRunner(llm_judge=..., azure_evaluators=...).run_all(...): the runner
\* with any judge and any evaluators, working or failing.
InitJudged ==
    /\ OrchIdle
    /\ AgentIdle
    /\ StatsIdle
    /\ ThreadsIdle
    /\ DispatchIdle
    /\ StepsIdle
    /\ ScoreIdle
    /\ CiteIdle
    /\ ev_scenarios \in JudgedLists
    /\ ev_pc = "run_all"
    /\ ev_results = <<>>
    /\ ev_steps = <<>>
    /\ ev_output = NoOutput
    /\ ev_researched = <<>>
    /\ ev_judge \in Judges
    /\ ev_azure \in Evaluators

SpecJudged == InitJudged /\ [][NextEval]_vars

\* match_step returns a StepResult.
MatchStepReturns ==
    /\ ms_pc = "call"
    /\ match_step(ms_assertion, ms_args, ev_output, ev_judge,
                  ev_azure).result.kind = "StepResult"
    /\ ms_ret' = match_step(ms_assertion, ms_args, ev_output, ev_judge,
                            ev_azure)
    /\ ms_pc' = "returned"
    /\ UNCHANGED <<ms_assertion, ms_args, ev_judge, ev_azure, ev_output,
                   ev_scenarios, ev_pc, ev_results, ev_steps, ev_researched>>
    /\ UNCHANGED <<scoreVars, citeVars>>
    /\ UNCHANGED <<orchVars, hpOnly, agentVars, statsVars, thrVars, dispVars>>

\* The step function match_step calls raises: the exception leaves match_step.
MatchStepRaises ==
    /\ ms_pc = "call"
    /\ match_step(ms_assertion, ms_args, ev_output, ev_judge,
                  ev_azure).result.kind = "raise"
    /\ ms_ret' = match_step(ms_assertion, ms_args, ev_output, ev_judge,
                            ev_azure)
    /\ ms_pc' = "raised"
    /\ UNCHANGED <<ms_assertion, ms_args, ev_judge, ev_azure, ev_output,
                   ev_scenarios, ev_pc, ev_results, ev_steps, ev_researched>>
    /\ UNCHANGED <<scoreVars, citeVars>>
    /\ UNCHANGED <<orchVars, hpOnly, agentVars, statsVars, thrVars, dispVars>>

InitSteps ==
    /\ OrchIdle
    /\ AgentIdle
    /\ StatsIdle
    /\ ThreadsIdle
    /\ DispatchIdle
    /\ RunnerIdle
    /\ ScoreIdle
    /\ CiteIdle
    /\ ms_pc = "call"
    /\ ms_assertion \in Assertions
    /\ ms_args \in ArgLists
    /\ ms_ret = NoReturn
    /\ ev_judge \in Judges
    /\ ev_azure \in Evaluators
    /\ ev_output \in Outputs

NextSteps ==
    \/ MatchStepReturns
    \/ MatchStepRaises

SpecSteps == InitSteps /\ [][NextSteps]_vars

\* ----------------------------------------------------- run_architecture

\* Keys of ARCHITECTURES the function is run with.
RunArchs == {"single_agent", "researcher_critic"}

\* {arch}_in_progress, {arch}_complete.json and {arch}_failed.json
MarkerKinds == {"in_progress", "complete", "failed"}

\* A status file of output_dir.
Marker(a, kind) == [arch |-> a, kind |-> kind]

\* The files output_dir holds when the function is called: any markers a
\* previous run of the same architecture left, and the complete marker of
\* a run of another architecture.
PreviousFiles(a) ==
    SUBSET ({Marker(a, k) : k \in MarkerKinds}
            \cup {Marker(b, "complete") : b \in RunArchs \ {a}})

\* The values of ScenarioResult.error of the results run_all returns.
ScenarioErrors == {NoError, "boom", ""}

\* run_eval_scenarios: "successful" counts the results whose error is
\* falsy, "failed" the others.
run_eval_scenarios(results) ==
    LET successful == SelectSeq(results, LAMBDA e : e \in {NoError, ""})
    IN [mode |-> "eval", scenario_count |-> Len(results),
        successful |-> Len(successful),
        failed |-> Len(results) - Len(successful)]

\* run_single_query: the fields of the ResearchResult; none is a count of
\* scenarios.
run_single_query ==
    [mode |-> "query", scenario_count |-> 0, successful |-> 0, failed |-> 0]

\* The result_data the body of the with block computed.
ResultData(mode) ==
    IF mode = "eval"
    THEN {run_eval_scenarios(r) : r \in ListsUpTo(ScenarioErrors, MaxScenarios)}
    ELSE {run_single_query}

raRest == <<first_fn, looked, dp_runs, dp_recorded>>

\* The markers of earlier runs of arch_key are removed.
RunClean ==
    /\ ra_pc = "start"
    /\ ra_files' = ra_files \ {Marker(ra_arch, k) : k \in MarkerKinds}
    /\ ra_pc' = "cleaned"
    /\ UNCHANGED <<ra_arch, ra_mode, ra_ret, mg_pc, mg_keep, mg_created, mg_log>>
    /\ UNCHANGED raRest
    /\ UNCHANGED <<orchVars, hpOnly, agentVars, statsVars, thrVars, evalVars>>

\* The in_progress marker is written.
RunMark ==
    /\ ra_pc = "cleaned"
    /\ ra_files' = ra_files \cup {Marker(ra_arch, "in_progress")}
    /\ ra_pc' = "try"
    /\ UNCHANGED <<ra_arch, ra_mode, ra_ret, mg_pc, mg_keep, mg_created, mg_log>>
    /\ UNCHANGED raRest
    /\ UNCHANGED <<orchVars, hpOnly, agentVars, statsVars, thrVars, evalVars>>

\* A variant of ExceptClause that leaves the in_progress marker.
ExceptClauseKeepsMarker(files, a) == files \cup {Marker(a, "failed")}

\* except Exception: the failed marker is written and the in_progress
\* marker removed if it exists.
ExceptClause(files, a) ==
    (files \cup {Marker(a, "failed")}) \ {Marker(a, "in_progress")}

ErrorOutput(mode) ==
    [success |-> FALSE, mode |-> mode, scenario_count |-> 0, successful |-> 0,
     failed |-> 0]

\* get_all_sources() or FoundryAgentManager(...) raises: no manager is
\* entered.
RunSetupRaises ==
    /\ ra_pc = "try"
    /\ ra_files' = ExceptClause(ra_files, ra_arch)
    /\ ra_ret' = ErrorOutput(ra_mode)
    /\ ra_pc' = "returned"
    /\ UNCHANGED <<ra_arch, ra_mode, mg_pc, mg_keep, mg_created, mg_log>>
    /\ UNCHANGED raRest
    /\ UNCHANGED <<orchVars, hpOnly, agentVars, statsVars, thrVars, evalVars>>

\* manager = FoundryAgentManager(keep_agents=keep_agents); with manager:
RunEnter ==
    /\ ra_pc = "try"
    /\ \E keep_agents \in BOOLEAN : mg_keep' = keep_agents
    /\ mg_pc' = "body"
    /\ mg_created' = <<>>
    /\ mg_log' = <<>>
    /\ ra_pc' = "with"
    /\ UNCHANGED <<ra_arch, ra_mode, ra_files, ra_ret>>
    /\ UNCHANGED raRest
    /\ UNCHANGED <<orchVars, hpOnly, agentVars, statsVars, thrVars, evalVars>>

\* The with block was left without exception: the complete marker is
\* written, the in_progress marker removed and output returned.
RunComplete ==
    /\ ra_pc = "with"
    /\ mg_pc = "left"
    /\ \E result_data \in ResultData(ra_mode) :
           ra_ret' = [success |-> TRUE, mode |-> ra_mode,
                      scenario_count |-> result_data.scenario_count,
                      successful |-> result_data.successful,
                      failed |-> result_data.failed]
    /\ ra_files' = (ra_files \cup {Marker(ra_arch, "complete")})
                       \ {Marker(ra_arch, "in_progress")}
    /\ ra_pc' = "returned"
    /\ UNCHANGED <<ra_arch, ra_mode, mg_pc, mg_keep, mg_created, mg_log>>
    /\ UNCHANGED raRest
    /\ UNCHANGED <<orchVars, hpOnly, agentVars, statsVars, thrVars, evalVars>>

\* An exception left the with block: research() in query mode, the scoring
\* of a scenario in eval mode, the creation of an agent.
RunFailed ==
    /\ ra_pc = "with"
    /\ mg_pc = "raised"
    /\ ra_files' = ExceptClause(ra_files, ra_arch)
    /\ ra_ret' = ErrorOutput(ra_mode)
    /\ ra_pc' = "returned"
    /\ UNCHANGED <<ra_arch, ra_mode, mg_pc, mg_keep, mg_created, mg_log>>
    /\ UNCHANGED raRest
    /\ UNCHANGED <<orchVars, hpOnly, agentVars, statsVars, thrVars, evalVars>>

\* run_architecture(arch_key, output_dir, query or eval_mode) is called on
\* an output_dir that may hold markers.
InitRun ==
    /\ OrchIdle
    /\ AgentIdle
    /\ EvalIdle
    /\ StatsIdle
    /\ ThreadsIdle
    /\ first_fn = <<>>
    /\ looked = <<>>
    /\ dp_runs = 0
    /\ dp_recorded = {}
    /\ mg_pc = "none"
    /\ mg_keep = FALSE
    /\ mg_created = <<>>
    /\ mg_log = <<>>
    /\ ra_pc = "start"
    /\ ra_arch \in RunArchs
    /\ ra_mode \in {"query", "eval"}
    /\ ra_files \in PreviousFiles(ra_arch)
    /\ ra_ret = ErrorOutput("none")

\* The body of the with block creates the agents of the orchestrator; it
\* does not call cleanup.
NextRun ==
    \/ RunClean
    \/ RunMark
    \/ RunSetupRaises
    \/ RunEnter
    \/ MgCreateAgent
    \/ MgExit
    \/ RunComplete
    \/ RunFailed

SpecRun == InitRun /\ [][NextRun]_vars

\* ------------------------------------------- evaluation: the sources used

\* DataSource.name of the built-in sources GovInfo, Federal Register and
\* Data.gov.
BuiltInNames ==
    {Word.GovInfo, Text(<<Word.Federal, Word.Register>>), Word.Data_gov}

\* The names of the data sources of a run: the built-in ones and a source
\* of the caller.
SourceNames == BuiltInNames \cup {Word.EPA}

\* _make_search_fn: source.name.lower().replace(" ", "_").replace(".", "")
safe_name(name) ==
    LET underscored == [i \in DOMAIN name |->
                           IF Lower(name)[i] = " " THEN "_"
                           ELSE Lower(name)[i]]
    IN SelectSeq(underscored, LAMBDA c : c # ".")

\* search.__name__, the name record() is called with
ToolName(name) == Word.search_ \o safe_name(name)

\* The targets of the assertion: the display names, display names written
\* in another case, and a word no tool name holds.
Targets ==
    SourceNames \cup {Lower(Word.EPA), Text(<<Word.Federal, Word.text>>),
                      Word.water}

\* ToolCallStats.record: the name is appended to sources_called if absent.
Recorded(sources_called, name) ==
    IF \E k \in DOMAIN sources_called : sources_called[k] = name
    THEN sources_called
    ELSE Append(sources_called, name)

\* The agent calls the search tool of a data source during the run whose
\* output match_step is about to score; sources_used is the list of the
\* tool names recorded.
SourceSearched ==
    /\ ms_pc = "call"
    /\ Len(ev_output.sources_used) < MaxToolCalls
    /\ \E name \in SourceNames :
           ev_output' = [ev_output EXCEPT !.sources_used =
                             Recorded(ev_output.sources_used, ToolName(name))]
    /\ UNCHANGED <<ms_pc, ms_assertion, ms_args, ms_ret, ev_judge, ev_azure>>
    /\ UNCHANGED <<ev_scenarios, ev_pc, ev_results, ev_steps, ev_researched>>
    /\ UNCHANGED <<scoreVars, citeVars>>
    /\ UNCHANGED <<orchVars, hpOnly, agentVars, statsVars, thrVars, dispVars>>

\* match_step on "sources should include", written in either case, for a run
\* that called no search tool yet.
InitSources ==
    /\ OrchIdle
    /\ AgentIdle
    /\ StatsIdle
    /\ ThreadsIdle
    /\ DispatchIdle
    /\ RunnerIdle
    /\ ScoreIdle
    /\ CiteIdle
    /\ ms_pc = "call"
    /\ ms_assertion \in {Text(<<Word.sources, Word.should, Word.include>>),
                         Text(<<Word.sources, Word.should, Word.include,
                                Word.The, Word.text>>)}
    /\ ms_args \in {<<>>} \cup {<<StrArg(t)>> : t \in Targets}
    /\ ms_ret = NoReturn
    /\ ev_judge = NotSupplied
    /\ ev_azure = NotSupplied
    /\ ev_output = ResearchOutput(Text(<<Word.water, Word.the, Word.answer>>),
                                  Ratio(10, 1), 4, 2, <<>>)

NextSources ==
    \/ SourceSearched
    \/ MatchStepReturns

SpecSources == InitSources /\ [][NextSources]_vars

\* ----------------------------------------- evaluation: thresholds, latency

MaxTarget == 3

MaxActual == 5

\* The threshold assertions: citations, answer length, documents, latency.
NumericAssertions ==
    {Text(<<Word.there, Word.should, Word.be, Word.at, Word.least>>),
     Text(<<Word.the, Word.answer, Word.should, Word.be, Word.at,
            Word.least>>),
     Text(<<Word.documents, Word.retrieved, Word.should, Word.be, Word.at,
            Word.least>>),
     Text(<<Word.completion, Word.time, Word.should, Word.be, Word.under>>)}

\* The targets: negative, zero and positive numbers, a word, and no argument.
NumericArgs ==
    {<<IntArg(t)>> : t \in (-1)..MaxTarget} \cup {<<>>, <<StrArg(Word.three)>>}

\* The elapsed times: every tenth of a second up to past twice the largest
\* target.
Elapseds == {Ratio(k, 10) : k \in 0..(20 * MaxTarget + 5)}

\* The outputs: a citations, a characters and a documents after no time, or
\* an empty output after some time.
NumericOutputs ==
    {ResearchOutput(Padded(<<>>, a), ScoreZero, a, a, <<>>) : a \in 0..MaxActual}
    \cup {ResearchOutput(<<>>, e, 0, 0, <<>>) : e \in Elapseds}

NotCalled == <<>>

\* check_latency is called for the completion time of the output.
CheckLatency ==
    /\ ms_pc # "call"
    /\ cl_ret = NotCalled
    /\ \E t \in (-1)..MaxTarget :
           cl_ret' = [threshold |-> t,
                      ret |-> check_latency(ev_output.completion_time, t)]
    /\ UNCHANGED <<sr_steps, sr_props, sm_results, sm_printed, sm_saved,
                   citeVars>>
    /\ UNCHANGED <<ev_scenarios, ev_pc, ev_results, ev_steps, ev_output,
                   ev_researched, ev_judge, ev_azure, ms_pc, ms_assertion,
                   ms_args, ms_ret>>
    /\ UNCHANGED <<orchVars, hpOnly, agentVars, statsVars, thrVars, dispVars>>

InitNumeric ==
    /\ OrchIdle
    /\ AgentIdle
    /\ StatsIdle
    /\ ThreadsIdle
    /\ DispatchIdle
    /\ RunnerIdle
    /\ ScoreIdle
    /\ CiteIdle
    /\ ms_pc = "call"
    /\ ms_assertion \in NumericAssertions
    /\ ms_args \in NumericArgs
    /\ ms_ret = NoReturn
    /\ ev_judge = NotSupplied
    /\ ev_azure = NotSupplied
    /\ ev_output \in NumericOutputs

NextNumeric ==
    \/ MatchStepReturns
    \/ MatchStepRaises
    \/ CheckLatency

SpecNumeric == InitNumeric /\ [][NextNumeric]_vars

\* ------------------------------------------- citations: the end of research()

MaxPieces == 3

NoNumber == -1

\* The pieces the answers of the model are made of, each with the number it
\* cites: the markers [1], [2] and [10], the marker [01], a word, and
\* brackets that are no marker. No marker spans two pieces.
Pieces ==
    {[chars |-> <<"[", "1", "]">>, number |-> 1],
     [chars |-> <<"[", "2", "]">>, number |-> 2],
     [chars |-> <<"[", "1", "0", "]">>, number |-> 10],
     [chars |-> <<"[", "0", "1", "]">>, number |-> 1],
     [chars |-> <<" ">> \o Word.text \o <<" ">>, number |-> NoNumber],
     [chars |-> <<"[", "a", "]", "[", "]">>, number |-> NoNumber]}

\* The text the pieces make.
RECURSIVE Join(_)
Join(pieces) ==
    IF pieces = <<>> THEN <<>> ELSE pieces[1].chars \o Join(Tail(pieces))

\* The findings the synthesizer was given: none, or a text that cites [9].
Findings == {<<>>, Word.text \o <<" ", "[", "9", "]">>}

\* The text "[n] [m] ..." of a citation list.
RECURSIVE Rebuilt(_)
Rebuilt(citations) ==
    IF citations = <<>> THEN <<>>
    ELSE <<"[">> \o citations[1].number \o <<"]", " ">>
         \o Rebuilt(Tail(citations))

NotReturned == <<>>

\* The end of research() in each pattern: citations =
\* extract_citations(answer), then the ResearchResult with that answer.
ReturnResearchResult ==
    /\ ci_result = NotReturned
    /\ ci_result' = [answer |-> ci_answer,
                     citations |-> extract_citations(ci_answer),
                     documents_used |-> Len(extract_citations(ci_answer))]
    /\ UNCHANGED <<ci_arch, ci_tokens, ci_answer, ci_findings, ci_again>>
    /\ UNCHANGED <<ev_scenarios, ev_pc, ev_results, ev_steps, ev_output,
                   ev_researched, ev_judge, ev_azure, ms_pc, ms_assertion,
                   ms_args, ms_ret, scoreVars>>
    /\ UNCHANGED <<orchVars, hpOnly, agentVars, statsVars, thrVars, dispVars>>

\* extract_citations is called on a text rebuilt from the citation list.
ExtractAgain ==
    /\ ci_result # NotReturned
    /\ ci_again = NotReturned
    /\ ci_again' =
           [citations |-> extract_citations(Rebuilt(ci_result.citations))]
    /\ UNCHANGED <<ci_arch, ci_tokens, ci_answer, ci_findings, ci_result>>
    /\ UNCHANGED <<ev_scenarios, ev_pc, ev_results, ev_steps, ev_output,
                   ev_researched, ev_judge, ev_azure, ms_pc, ms_assertion,
                   ms_args, ms_ret, scoreVars>>
    /\ UNCHANGED <<orchVars, hpOnly, agentVars, statsVars, thrVars, dispVars>>

InitCitations ==
    /\ OrchIdle
    /\ AgentIdle
    /\ StatsIdle
    /\ ThreadsIdle
    /\ DispatchIdle
    /\ RunnerIdle
    /\ StepsIdle
    /\ ScoreIdle
    /\ ev_output = <<>>
    /\ ev_judge = <<>>
    /\ ev_azure = <<>>
    /\ ci_arch \in Archs \cup {"hp"}
    /\ ci_tokens \in ListsUpTo(Pieces, MaxPieces)
    /\ ci_answer = Join(ci_tokens)
    /\ ci_findings \in Findings
    /\ ci_result = NotReturned
    /\ ci_again = NotReturned

NextCitations ==
    \/ ReturnResearchResult
    \/ ExtractAgain

SpecCitations == InitCitations /\ [][NextCitations]_vars

\* ------------------------------------------------------ evaluation: scoring

MaxSteps == 3

\* The scores of the steps of the ScenarioResult whose properties are read.
StepScores ==
    {ScoreZero, Ratio(1, 2), Ratio(3, 5), Ratio(7, 10), Ratio(4, 5), ScoreOne}

\* StepResult.passed: score > 0.5
step_passed(sr) == BigLess(Double(Ratio(1, 2)), Double(sr.score))

\* ScenarioResult.passed_count and failed_count
passed_count(r) == Len(SelectSeq(r.steps, step_passed))

failed_count(r) == Len(SelectSeq(r.steps, LAMBDA sr : ~step_passed(sr)))

NotRead == <<>>

\* steps.append(StepResult(...)) on the steps of the ScenarioResult
StepsAppend ==
    /\ Len(sr_steps) < MaxSteps
    /\ \E q \in StepScores :
           sr_steps' = Append(sr_steps, StepResult(q, "quality", "", FALSE))
    /\ sr_props' = NotRead
    /\ UNCHANGED <<sm_results, sm_printed, sm_saved, cl_ret, citeVars>>
    /\ UNCHANGED <<ev_scenarios, ev_pc, ev_results, ev_steps, ev_output,
                   ev_researched, ev_judge, ev_azure, ms_pc, ms_assertion,
                   ms_args, ms_ret>>
    /\ UNCHANGED <<orchVars, hpOnly, agentVars, statsVars, thrVars, dispVars>>

\* The properties of the ScenarioResult are read.
ReadProperties ==
    /\ sr_props = NotRead
    /\ sr_props' = [overall_score |-> overall_score([steps |-> sr_steps]),
                    passed |-> passed([steps |-> sr_steps]),
                    passed_count |-> passed_count([steps |-> sr_steps]),
                    failed_count |-> failed_count([steps |-> sr_steps])]
    /\ UNCHANGED <<sr_steps, sm_results, sm_printed, sm_saved, cl_ret, citeVars>>
    /\ UNCHANGED <<ev_scenarios, ev_pc, ev_results, ev_steps, ev_output,
                   ev_researched, ev_judge, ev_azure, ms_pc, ms_assertion,
                   ms_args, ms_ret>>
    /\ UNCHANGED <<orchVars, hpOnly, agentVars, statsVars, thrVars, dispVars>>

InitScore ==
    /\ OrchIdle
    /\ AgentIdle
    /\ StatsIdle
    /\ ThreadsIdle
    /\ DispatchIdle
    /\ RunnerIdle
    /\ StepsIdle
    /\ ev_output = <<>>
    /\ ev_judge = <<>>
    /\ ev_azure = <<>>
    /\ sr_steps = <<>>
    /\ sr_props = NotRead
    /\ sm_results = <<>>
    /\ sm_printed = <<>>
    /\ sm_saved = <<>>
    /\ cl_ret = <<>>
    /\ CiteIdle

NextScore ==
    \/ StepsAppend
    \/ ReadProperties

SpecScore == InitScore /\ [][NextScore]_vars

\* ------------------------------------------------ evaluation: the summaries

\* The results the summaries are made of, with the fields they read: results
\* that pass, fail and lie on the threshold, a result without assertions,
\* and the results of a research() that raised with a message and, as
\* TimeoutError() does, with the empty message (error = str(e)).
SummaryResults ==
    {[steps |-> <<StepResult(ScoreOne, "quality", "", FALSE)>>,
      error |-> NoError],
     [steps |-> <<StepResult(Ratio(1, 2), "quality", "", FALSE)>>,
      error |-> NoError],
     [steps |-> <<StepResult(Ratio(7, 10), "quality", "", FALSE),
                  StepResult(Ratio(7, 10), "quality", "", FALSE)>>,
      error |-> NoError],
     [steps |-> <<>>, error |-> NoError],
     [steps |-> <<>>, error |-> "research raised"],
     [steps |-> <<>>, error |-> ""]}

\* if r.error: None and the empty str are falsy.
Truthy(error) == error \notin {NoError, ""}

\* sum(r.overall_score for r in successful): float additions from the left.
RECURSIVE SumOverall(_)
SumOverall(rs) ==
    IF rs = <<>> THEN BigZero
    ELSE FloatAdd(SumOverall(SubSeq(rs, 1, Len(rs) - 1)),
                  overall_score(rs[Len(rs)]))

\* The overall score of both summaries: successful = [r for r in results if
\* not r.error], then the mean of their overall_score, 0.0 if there is none.
Overall(results) ==
    LET successful == SelectSeq(results, LAMBDA r : ~Truthy(r.error))
    IN IF successful = <<>> THEN BigZero
       ELSE FloatDiv(SumOverall(successful), Len(successful))

NotWritten == <<>>

\* print_summary: the figures of the scorecard's first lines.
print_summary ==
    /\ sm_printed = NotWritten
    /\ sm_printed' =
           [overall |-> RoundTo(Overall(sm_results), 100),
            passed |-> Len(SelectSeq(sm_results, passed)),
            total |-> Len(sm_results),
            errored |-> Len(SelectSeq(sm_results, LAMBDA r : Truthy(r.error)))]
    /\ UNCHANGED <<sr_steps, sr_props, sm_results, sm_saved, cl_ret, citeVars>>
    /\ UNCHANGED <<ev_scenarios, ev_pc, ev_results, ev_steps, ev_output,
                   ev_researched, ev_judge, ev_azure, ms_pc, ms_assertion,
                   ms_args, ms_ret>>
    /\ UNCHANGED <<orchVars, hpOnly, agentVars, statsVars, thrVars, dispVars>>

\* save_results: the "summary" of the JSON file.
save_results ==
    /\ sm_saved = NotWritten
    /\ sm_saved' =
           [overall_score |-> RoundTo(Overall(sm_results), 1000),
            passed |-> Len(SelectSeq(sm_results, passed)),
            failed |-> Len(SelectSeq(sm_results, LAMBDA r : ~passed(r))),
            total |-> Len(sm_results)]
    /\ UNCHANGED <<sr_steps, sr_props, sm_results, sm_printed, cl_ret,
                   citeVars>>
    /\ UNCHANGED <<ev_scenarios, ev_pc, ev_results, ev_steps, ev_output,
                   ev_researched, ev_judge, ev_azure, ms_pc, ms_assertion,
                   ms_args, ms_ret>>
    /\ UNCHANGED <<orchVars, hpOnly, agentVars, statsVars, thrVars, dispVars>>

InitSummary ==
    /\ OrchIdle
    /\ AgentIdle
    /\ StatsIdle
    /\ ThreadsIdle
    /\ DispatchIdle
    /\ RunnerIdle
    /\ StepsIdle
    /\ CiteIdle
    /\ ev_output = <<>>
    /\ ev_judge = <<>>
    /\ ev_azure = <<>>
    /\ sr_steps = <<>>
    /\ sr_props = <<>>
    /\ cl_ret = <<>>
    /\ sm_results \in ListsUpTo(SummaryResults, MaxScenarios)
    /\ sm_printed = NotWritten
    /\ sm_saved = NotWritten

NextSummary ==
    \/ print_summary
    \/ save_results

SpecSummary == InitSummary /\ [][NextSummary]_vars

\* =================================================================== claims

\* The position in calls of the last Critic invocation (0 when there is none).
LastCritic ==
    LET cs == {i \in DOMAIN calls : calls[i].role = "critic"}
    IN  IF cs = {} THEN 0 ELSE CHOOSE i \in cs : \A j \in cs : j <= i

\* The last invocation made is a Critic's: the state right after a round.
AfterCritic == calls # <<>> /\ calls[Len(calls)].role = "critic"

\* The texts produced in the round that the Critic invocation at k closed:
\* the Researcher's, or those of the Source-Workers.
RoundOutputs(k) ==
    LET n == IF arch = "sw" THEN NumSources ELSE 1
    IN  {calls[i].out : i \in (k - n)..(k - 1)}

\* A critique object that reads as "insufficient, score below 0.7" where an
\* absent member counts as 0 / false (Researcher-Critic, Multi-Agent).
ReadsInsufficient(c) ==
    /\ c.kind = "object"
    /\ c.qs = "missing" \/ (c.qs = "num" /\ c.qv < 7)
    /\ c.suff \in {"missing", "false"}

\* C1: Researcher-Critic runs 1 to 3 rounds, each one Researcher invocation
\* followed by one Critic invocation; after round r, round r + 1 starts if
\* and only if r < 3 and the critique parsed with quality_score < 0.7 and
\* is_sufficient false; the returned metadata 'iterations' is the number of
\* rounds run.
C1_RoundsIffInsufficient ==
    arch = "rc" =>
        /\ \A i \in DOMAIN calls :
              /\ calls[i].role = (IF i % 2 = 1 THEN "researcher" ELSE "critic")
              /\ calls[i].rnd = (i + 1) \div 2
        /\ Len(calls) <= 6
        /\ AfterCritic =>
              LET r == Len(calls) \div 2
              IN  (pc = "researcher" /\ rnd = r + 1)
                    <=> (r < 3 /\ ReadsInsufficient(critique))
        /\ pc = "done" =>
              /\ result.returned
              /\ result.count = Len(calls) \div 2
              /\ result.count \in 1..3

\* C2: in each feedback pattern, a Critic text that is not parseable JSON
\* ends the loop at that round: no Researcher, Planner, Source-Worker or
\* Critic is invoked after it, the only invocation that may follow is the
\* Synthesizer (none in Researcher-Critic), which is given the outputs of
\* that round, and the result returned is built from that round.
C2_UnparseableEndsLoop ==
    critique.kind = "invalid" =>
        LET k == LastCritic
        IN  /\ exc = "none"
            /\ rnd = calls[k].rnd
            /\ Len(calls) <= k + 1
            /\ IF arch = "rc"
               THEN /\ Len(calls) = k
                    /\ pc = "done"
                    /\ result = ResearchResult(calls[k - 1].out, calls[k].rnd, 0)
               ELSE /\ pc \in {"synthesizer", "done"}
                    /\ (pc = "synthesizer") <=> (Len(calls) = k)
                    /\ Len(calls) = k + 1 =>
                          /\ calls[k + 1].role = "synthesizer"
                          /\ calls[k + 1].uses = RoundOutputs(k)
                          /\ result.returned
                          /\ result.answer = calls[k + 1].out
                          /\ arch \in {"ma", "sw"} => result.count = calls[k].rnd
                          /\ arch = "pe" => result.count = calls[k].rnd - 1

\* C2 witness: a Supervisor-Worker run whose second critique was not JSON
\* has returned.
C2_Witness ==
    /\ arch = "sw" /\ critique.kind = "invalid" /\ rnd = 2 /\ pc = "done"

\* A critique that is malformed: not JSON, JSON that is not an object, or an
\* object whose quality_score is null or not a number or whose gaps or
\* suggestions are not lists of strings.
Malformed(c) ==
    \/ c.kind \in {"invalid", "nonobject"}
    \/ c.qs \in {"null", "text", "nan"}
    \/ ~(c.gaps \in {"missing", "strings"})
    \/ ~(c.sugg \in {"missing", "strings"})

\* C3: a malformed critique or verification is treated as "accept the
\* current result and stop iterating": research() never raises because of
\* what a critique holds.
C3_MalformedNeverRaises ==
    /\ pc # "raised"
    /\ exc = "none"

\* C4: whatever the backend responds, also when every response requests
\* tool calls, run_agent performs at most 10 tool-dispatch rounds and at most
\* 11 backend calls (the initial one plus one per round), then returns a
\* RunResult holding the text of the last response, empty when that response
\* carries no message, even if the last response still requests tool calls.
C4_AtMostTenRounds ==
    /\ round_num <= 10
    /\ backend_calls <= 11
    /\ ag_pc # "idle" => backend_calls = round_num + 1
    /\ ag_pc \in {"tools", "backend"} => round_num < 10 /\ ~run_result.returned
    /\ ag_pc = "tools" => response.fn_calls # <<>>
    /\ ag_pc = "returned" =>
          /\ response.fn_calls = <<>> \/ round_num = 10
          /\ response.id = backend_calls
          /\ run_result.returned
          /\ run_result.text = (IF response.message THEN response.id ELSE 0)

\* C4 witness: run_agent has returned the empty text after ten rounds, the
\* eleventh response holding tool calls and no message.
C4_Witness ==
    /\ ag_pc = "returned" /\ round_num = 10 /\ backend_calls = 11
    /\ response.fn_calls # <<>> /\ ~response.message
    /\ run_result.returned /\ run_result.text = 0

\* A call the round answers with an error: its function raises, its name is
\* not registered, or its arguments are not JSON.
Fails(fc) ==
    \/ fc.does = "raise"
    \/ ~(fc.name \in DOMAIN tool_dispatch)
    \/ fc.arguments = "invalid"

\* The call_ids, in call order, of the calls of cs whose function is called:
\* the name is registered and the arguments are a JSON object.
Called(cs) ==
    LET ran == SelectSeq(cs, LAMBDA fc : /\ fc.name \in DOMAIN tool_dispatch
                                         /\ fc.arguments = "object")
    IN  [i \in DOMAIN ran |-> ran[i].call_id]

\* C5: a tool-dispatch round with calls c1..cn yields exactly n outputs, in
\* call order, each carrying the call_id of its call; a call whose function
\* raises, whose name is not registered or whose arguments are not valid JSON
\* yields the error output, for that call only: every other call is still
\* executed and yields what its function returned.
C5_ErrorPerCall ==
    ag_pc = "backend" =>
        LET cs == response.fn_calls
        IN  /\ Len(tool_results) = Len(cs)
            /\ \A i \in DOMAIN cs :
                  /\ tool_results[i].type = "function_call_output"
                  /\ tool_results[i].call_id = cs[i].call_id
                  /\ Fails(cs[i]) => tool_results[i].output = "error"
                  /\ (~Fails(cs[i]) /\ cs[i].arguments = "object") =>
                        tool_results[i].output = cs[i].does
            /\ executed = Called(cs)

\* C5 witness: a round of two calls in which the function of the first
\* raised and the second returned its string.
C5_Witness ==
    /\ ag_pc = "backend"
    /\ Len(response.fn_calls) = 2
    /\ response.fn_calls[1].does = "raise"
    /\ tool_results[1].output = "error"
    /\ tool_results[2].output = "str"
    /\ Len(executed) = 2

\* A verification object that reads as "insufficient": is_sufficient false
\* and a numeric quality_score below 0.7.
VerifiedInsufficient(c) ==
    /\ c.kind = "object"
    /\ c.qs = "num" /\ c.qv < 7
    /\ c.suff = "false"

\* C6: Plan-and-Execute invokes the Planner once before any execution, runs
\* at most 3 attempts (Researcher, then Critic), re-invokes the Planner after
\* an attempt if and only if the verification parsed as insufficient and the
\* attempt was not the third, so replans at most twice, reports the number of
\* Planner re-invocations as 'replans' and ends every run with exactly one
\* Synthesizer invocation after the loop.
C6_PlanExecuteReplans ==
    arch = "pe" =>
        /\ calls # <<>> => calls[1].role = "planner"
        /\ Invoked("researcher", 0) <= 3
        /\ Invoked("critic", 0) <= Invoked("researcher", 0)
        /\ AfterCritic =>
              ((pc = "replan")
                 <=> (VerifiedInsufficient(critique) /\ Invoked("critic", 0) < 3))
        /\ replans <= 2
        /\ pc # "replan" => replans = Invoked("planner", 0) - 1 \/ calls = <<>>
        /\ pc = "done" =>
              /\ result.count = Invoked("planner", 0) - 1
              /\ Invoked("synthesizer", 0) = 1
              /\ calls[Len(calls)].role = "synthesizer"
        /\ pc # "raised"

C8_PriorRoundDiscoveries ==
    arch = "hp" =>
        \A i \in DOMAIN calls :
            calls[i].role = "worker" =>
                /\ calls[i].rnd = 1 => calls[i].uses = {}
                /\ calls[i].rnd = 2 =>
                      calls[i].uses =
                         {reported[<<1, v>>].txt : v \in Sources \ {calls[i].src}}

\* C9: the Hybrid P2P Synthesizer prompt holds the raw response text of
\* every worker from every round.
C9_SynthesizerSeesAllRounds ==
    arch = "hp" =>
        \A i \in DOMAIN calls :
            calls[i].role = "synthesizer" =>
                \A j \in 1..(i - 1) :
                    calls[j].role = "worker" => calls[j].out \in calls[i].uses

\* C10: Hybrid P2P always runs 2 rounds with no early exit: 2N Source-Worker
\* invocations, each worker once per round, then one Synthesizer invocation,
\* whatever the worker texts are; a text that fails to parse contributes an
\* empty discovery list; the returned 'rounds' is 2.
C10_TwoFullRounds ==
    arch = "hp" =>
        /\ pc # "raised"
        /\ \A i \in DOMAIN calls :
              IF i <= 2 * NumSources
              THEN /\ calls[i].role = "worker"
                   /\ calls[i].rnd = ((i - 1) \div NumSources) + 1
                   /\ calls[i].src = data_sources[((i - 1) % NumSources) + 1]
              ELSE calls[i].role = "synthesizer" /\ i = 2 * NumSources + 1
        /\ pc \in {"synthesizer", "done"} => Len(calls) >= 2 * NumSources
        /\ pc = "done" =>
              /\ Len(calls) = 2 * NumSources + 1
              /\ result.returned /\ result.count = 2
        /\ (worker_text.kind = "invalid" /\ calls # <<>>
            /\ calls[Len(calls)].role = "worker") =>
              all_discoveries[calls[Len(calls)].src].kind = "empty"

\* C11: in Multi-Agent the Synthesizer is invoked exactly once per research(),
\* after the last Critic invocation, with the Researcher output of the final
\* executed round, however the loop ended; the answer returned is the
\* Synthesizer's text, never the Researcher's.
C11_SynthesizerOnce ==
    arch = "ma" =>
        /\ Invoked("synthesizer", 0) <= 1
        /\ pc # "raised"
        /\ pc = "done" =>
              LET k == Len(calls)
              IN  /\ Invoked("synthesizer", 0) = 1
                  /\ calls[k].role = "synthesizer"
                  /\ LastCritic = k - 1
                  /\ calls[k - 2].role = "researcher"
                  /\ calls[k - 2].rnd = calls[k - 1].rnd
                  /\ calls[k].uses = {calls[k - 2].out}
                  /\ result.returned
                  /\ result.answer = calls[k].out
                  /\ result.answer.role = "synthesizer"

\* The elements of a list.
Elements(l) == {l[i] : i \in DOMAIN l}

\* The sum of documents_retrieved over the trackers.
RECURSIVE SumDocs(_)
SumDocs(T) ==
    IF T = {} THEN 0
    ELSE LET t == CHOOSE x \in T : TRUE
         IN  documents_retrieved[t] + SumDocs(T \ {t})

\* Every tracker reads (0, []).
AllCleared ==
    \A t \in DOMAIN documents_retrieved :
        documents_retrieved[t] = 0 /\ lists[Own(t)] = <<>>

\* C12: for every pattern and any sequence of research() calls on one
\* orchestrator, also after calls that raised, the documents_retrieved and
\* sources_checked of a returned ResearchResult count only the tool calls of
\* that call: every tracker is reset before the first invocation of the run,
\* and after research() returns every tracker reads (0, []).
C12_CountsOnlyThisRun ==
    /\ (st_pc = "running" /\ st_calls = 0) => AllCleared
    /\ st_pc = "running" =>
          /\ SumDocs(DOMAIN documents_retrieved) = made.docs
          /\ UNION {Elements(lists[Own(t)]) : t \in DOMAIN documents_retrieved}
                = made.names
    /\ st_pc = "returned" =>
          /\ st_result.documents_retrieved = made.docs
          /\ Elements(lists[st_result.sources_checked]) = made.names
          /\ Len(lists[st_result.sources_checked]) = Cardinality(made.names)
          /\ AllCleared

\* C12 witness: a research() that started with documents left in a tracker by
\* a call that raised has returned, after searches that found documents.
C12_Witness ==
    /\ st_pc = "returned" /\ made.dirty /\ made.docs > 0
    /\ st_result.documents_retrieved = made.docs

\* C14: reset() returns the pre-reset (documents_retrieved, sources_called)
\* and leaves the tracker at (0, []); a reset right after a reset returns
\* (0, []); the list returned is a snapshot, changed neither by the clearing
\* nor by later record() calls.
C14_ResetReturnsSnapshot ==
    /\ \A i \in DOMAIN last_reset.rets :
          LET ret == last_reset.rets[i]
              was == last_reset.held[i]
          IN  /\ ret.docs = was.docs
              /\ lists[ret.sources] = was.sources
              /\ was.clean => ret.docs = 0 /\ lists[ret.sources] = <<>>
    /\ (st_pc = "returned" \/ (st_pc = "running" /\ st_calls = 0)) =>
          /\ last_reset.rets # <<>>
          /\ AllCleared
    /\ st_result.returned =>
          Elements(lists[st_result.sources_checked]) = st_result.names

\* C14 witness: the fourth reset of a tracker, the end of a second research()
\* whose first reset followed a reset directly, has returned a non-empty
\* list.
C14_Witness ==
    /\ st_pc = "returned" /\ st_runs = 2
    /\ st_result.names # {}
    /\ last_reset.held[1].sources # <<>>
    /\ slot[1] = 4

\* No thread is inside record() or reset().
Quiescent == \A th \in DOMAIN th_pc : th_pc[th] = "idle"

\* C13: under any interleaving of concurrent record() and reset() calls on
\* one ToolCallStats no increment is lost or counted twice: the documents
\* returned by all resets plus the counter equal the documents recorded; each
\* recorded name is returned by exactly one reset or is still in the tracker;
\* sources_called never holds a name twice.
C13_NoLostUpdate ==
    /\ Quiescent =>
          /\ returned_total + tr_docs = recorded_total
          /\ Elements(tr_sources) = unreturned
    /\ Len(tr_sources) = Cardinality(Elements(tr_sources))
    /\ last_ret.returned =>
          /\ Elements(last_ret.sources) = last_ret.names
          /\ Len(last_ret.sources) = Cardinality(last_ret.names)

\* C13 witness: three calls have completed, among them a reset() that
\* returned a recorded name with its documents and a record() after it.
C13_Witness ==
    /\ Quiescent /\ ops_done = 3
    /\ last_ret.returned /\ last_ret.names # {}
    /\ returned_total > 0 /\ tr_docs > 0

\* C15: entries of the manager's tool dispatch table are write-once per name:
\* once a function is registered under a name, a later run_agent call that
\* supplies another function under that name does not replace it, and
\* lookups keep returning the first function.
C15_FirstRegistrationWins ==
    /\ \A n \in DOMAIN tool_dispatch : tool_dispatch[n] = first_fn[n]
    /\ looked.st = "found" => looked.fn = first_fn[looked.name]

\* C16: in every pattern an exception raised by the generation backend
\* during a role invocation propagates out of research(): no further role
\* invocation is made in that run and no ResearchResult is returned; and a
\* backend failure is the only kind of failure that ends a run this way.
C16_OnlyBackendFailureEndsRun ==
    /\ [](exc = "BackendError" => (pc = "raised" /\ ~result.returned))
    /\ [][exc # "BackendError"]_vars
    /\ [](pc = "raised" => exc = "BackendError")

\* C17: run_all returns exactly one ScenarioResult per scenario, in the order
\* of its input, whatever a scenario raises during research() or during the
\* scoring of its assertions: no exception leaves run_all, and the list it
\* returns holds the result of scenario i at place i.
C17_OneResultPerScenario ==
    /\ ev_pc # "raised"
    /\ ev_pc = "returned" =>
          /\ Len(ev_results) = Len(ev_scenarios)
          /\ \A i \in DOMAIN ev_results :
                 ev_results[i].scenario_id = ev_scenarios[i].scenario_id

\* C18: every ScenarioResult with an error has no steps, overall_score 0.0
\* and passed False; research() is never called for a scenario without
\* query.
C18_ErroredHasNoSteps ==
    /\ \A i \in DOMAIN ev_results :
           ev_results[i].error # NoError =>
               /\ ev_results[i].steps = <<>>
               /\ overall_score(ev_results[i]) = BigZero
               /\ ~passed(ev_results[i])
    /\ \A i \in DOMAIN ev_scenarios :
           ev_scenarios[i].query = NoQuery =>
               \A k \in DOMAIN ev_researched :
                   ev_researched[k] # ev_scenarios[i].scenario_id

\* run_all returned after research() raised for a scenario with assertions
\* and another scenario with assertions had no query.
C18_Witness ==
    /\ ev_pc = "returned"
    /\ \E i, j \in DOMAIN ev_results :
           /\ ev_results[i].error = "research raised"
           /\ ev_scenarios[i].thens # <<>>
           /\ ev_results[j].error = "No query defined in scenario"
           /\ ev_scenarios[j].thens # <<>>

\* Two characters are the same letter in either case, or the same character.
SameIgnoringCase(c, d) ==
    \/ c = d
    \/ \E k \in DOMAIN UpperCase : {c, d} = {UpperCase[k], LowerCase[k]}

\* p is a prefix of a when the case of the letters is ignored.
PrefixIgnoringCase(p, a) ==
    /\ Len(p) <= Len(a)
    /\ \A i \in DOMAIN p : SameIgnoringCase(p[i], a[i])

\* The entries of the registry whose pattern is a prefix of the assertion
\* match_step was called with.
Matching == {i \in DOMAIN STEP_DEFS :
                PrefixIgnoringCase(STEP_DEFS[i].pattern, ms_assertion)}

\* match_step left the registry at the first matching entry and called no
\* step function of another entry.
DispatchedToFirst ==
    /\ Matching = {} => ms_ret.entry = 0 /\ ms_ret.executed = <<>>
    /\ Matching # {} =>
          /\ ms_ret.entry \in Matching
          /\ \A i \in Matching : ms_ret.entry <= i
          /\ Len(ms_ret.executed) <= 1
          /\ \A k \in DOMAIN ms_ret.executed :
                 ms_ret.executed[k] = STEP_DEFS[ms_ret.entry].fn

\* C19: match_step dispatches an assertion to the first entry, in
\* registration order, whose pattern is a case-insensitive prefix of it; the
\* entries registered later are not executed; and the call produces exactly
\* one StepResult.
C19_FirstMatchWins ==
    ms_pc # "call" =>
        /\ DispatchedToFirst
        /\ ms_pc = "returned"
        /\ ms_ret.result.kind = "StepResult"

\* The step function match_step dispatched the assertion to ("none" when no
\* entry matched).
DispatchedFn ==
    IF ms_ret.entry = 0 THEN "none" ELSE STEP_DEFS[ms_ret.entry].fn

\* C20: no pattern of the registry is shadowed: of two patterns of which one
\* is a proper case-insensitive prefix of the other, the longer one is
\* registered earlier; so "the answer should be at least" reaches the length
\* scorer and "the answer should (not) mention" the keyword scorers.
C20_NoPatternShadowed ==
    /\ \A i, j \in DOMAIN STEP_DEFS :
           /\ PrefixIgnoringCase(STEP_DEFS[i].pattern, STEP_DEFS[j].pattern)
           /\ Len(STEP_DEFS[i].pattern) < Len(STEP_DEFS[j].pattern)
           => j < i
    /\ ms_pc # "call" =>
          /\ PrefixIgnoringCase(Text(<<Word.the, Word.answer, Word.should,
                                       Word.be, Word.at, Word.least>>),
                                ms_assertion)
             => DispatchedFn = "_min_length"
          /\ PrefixIgnoringCase(Text(<<Word.the, Word.answer, Word.should,
                                       Word.mention>>), ms_assertion)
             => DispatchedFn = "_answer_should_mention"
          /\ PrefixIgnoringCase(Text(<<Word.the, Word.answer, Word.should,
                                       Word.not, Word.mention>>), ms_assertion)
             => DispatchedFn = "_answer_should_not_mention"

\* With a judge supplied, an assertion written with capitals that the three
\* patterns "the answer should", "the answer should be" and "the answer
\* should be at least" match was scored by the length scorer.
C20_Witness ==
    /\ ms_pc = "returned"
    /\ ms_assertion = Text(<<Word.The, Word.ANSWER, Word.should, Word.be,
                             Word.at, Word.least>>)
    /\ Cardinality(Matching) = 3
    /\ ev_judge.configured
    /\ ms_ret.executed = <<"_min_length">>

\* The entry match_step stopped at needs a judge that was not supplied.
JudgeMissing ==
    /\ ms_ret.entry # 0
    /\ \/ STEP_DEFS[ms_ret.entry].is_llm /\ ~ev_judge.configured
       \/ STEP_DEFS[ms_ret.entry].is_azure_eval /\ ~ev_azure.configured

\* C21: when the matching step needs a judge (LLM judge or Azure evaluators)
\* that was not supplied, match_step returns a StepResult with score 1.0, a
\* "Skipped" detail and is_llm_judged true, and calls no step function; the
\* step passes, and a scenario scored by it alone passes.
C21_MissingJudgeSkips ==
    (ms_pc # "call" /\ JudgeMissing) =>
        /\ ms_pc = "returned"
        /\ ms_ret.result.kind = "StepResult"
        /\ ms_ret.result.score = ScoreOne
        /\ ms_ret.result.detail \in
               {"Skipped (no LLM judge configured)",
                "Skipped (Azure evaluators not configured)"}
        /\ ms_ret.result.is_llm_judged
        /\ ms_ret.executed = <<>>
        /\ step_passed(ms_ret.result)
        /\ passed([steps |-> <<ms_ret.result>>])

\* An azure step was skipped though an LLM judge was supplied.
C21_Witness ==
    /\ ms_pc = "returned"
    /\ JudgeMissing
    /\ STEP_DEFS[ms_ret.entry].fn = "_azure_groundedness"
    /\ ev_judge.configured
    /\ ms_ret.result.metric = "groundedness"

\* No pattern of the registry is a case-insensitive prefix of the text.
Unmatched(a) ==
    \A j \in DOMAIN STEP_DEFS : ~PrefixIgnoringCase(STEP_DEFS[j].pattern, a)

\* The step results are one per assertion, in the order of the assertions:
\* the unmatched assertions, and only they, have the step that reports no
\* step definition, with score 0.0 and not passed.
OnePerAssertion(steps, thens) ==
    \A k \in DOMAIN steps :
        /\ Unmatched(thens[k].assertion)
              <=> steps[k].detail = "No step definition found"
        /\ Unmatched(thens[k].assertion) =>
              steps[k].score = ScoreZero /\ ~step_passed(steps[k])

\* C22: an assertion no registered pattern matches gives a StepResult with
\* score 0.0 and a "No step definition found" detail, and does not abort the
\* scenario: every ScenarioResult without error holds exactly one StepResult
\* per then-assertion, in the order the assertions were recorded.
C22_UnmatchedScoresZero ==
    /\ \A i \in DOMAIN ev_results :
           ev_results[i].error = NoError =>
               /\ Len(ev_results[i].steps) = Len(ev_scenarios[i].thens)
               /\ OnePerAssertion(ev_results[i].steps, ev_scenarios[i].thens)
    /\ ev_pc \in {"scoring", "raised"} =>
           /\ Len(ev_steps) <= Len(Current.thens)
           /\ OnePerAssertion(ev_steps, Current.thens)
    /\ ev_pc = "raised" =>
           ~Unmatched(Current.thens[Len(ev_steps) + 1].assertion)

\* run_all returned a scenario whose first assertion was unmatched and whose
\* second assertion was scored 1.0 after it.
C22_Witness ==
    /\ ev_pc = "returned"
    /\ \E i \in DOMAIN ev_results :
           /\ ev_results[i].error = NoError
           /\ Len(ev_results[i].steps) = 2
           /\ Unmatched(ev_scenarios[i].thens[1].assertion)
           /\ ev_results[i].steps[1].score = ScoreZero
           /\ ev_results[i].steps[2].score = ScoreOne

\* The step function that scored the assertion is one of the LLM-judged ones.
JudgedByLLM ==
    ms_ret.executed \in {<<"_answer_quality">>, <<"_answer_should">>}

\* The step function that scored the assertion is an Azure evaluation step.
JudgedByAzure ==
    ms_ret.executed \in {<<"_azure_relevance">>, <<"_azure_coherence">>,
                         <<"_azure_groundedness">>, <<"_azure_fluency">>}

\* (raw - 1) / 4, kept within [0,1]
Rescaled(raw) ==
    IF raw.num < raw.den THEN ScoreZero
    ELSE IF raw.num > 5 * raw.den THEN ScoreOne
    ELSE Ratio(raw.num - raw.den, 4 * raw.den)

\* C23: every StepResult match_step returns has 0 <= score <= 1, whatever the
\* assertion, the output and the judge; a judge's raw score on a 1-5 scale
\* is rescaled by (raw - 1) / 4 and clamped to [0,1].
C23_ScoreInUnitInterval ==
    ms_pc = "returned" =>
        /\ RatioLessEq(ScoreZero, ms_ret.result.score)
        /\ RatioLessEq(ms_ret.result.score, ScoreOne)
        /\ (JudgedByLLM /\ RatioLess(ScoreOne, ev_judge.raw)) =>
               ms_ret.result.score = Rescaled(ev_judge.raw)
        /\ JudgedByAzure => ms_ret.result.score = Rescaled(ev_azure.raw)

\* The sum of the step scores, without rounding.
RECURSIVE ExactSum(_)
ExactSum(steps) ==
    IF steps = <<>> THEN BigZero
    ELSE BigAdd(Double(steps[1].score), ExactSum(Tail(steps)))

\* C24: overall_score is the arithmetic mean of the step scores and 0.0 when
\* there are no steps; the scenario passes exactly when that mean is at least
\* 0.7 (a mean of exactly 0.7 passes); a step passes exactly when its score is
\* above 0.5; passed_count + failed_count is the number of steps.
C24_MeanAndThresholds ==
    sr_props # NotRead =>
        /\ sr_steps = <<>> => sr_props.overall_score = BigZero
        /\ sr_props.passed <=>
               /\ sr_steps # <<>>
               /\ ~BigLess(ExactSum(sr_steps),
                           BigMul(Double(Ratio(7, 10)), Len(sr_steps)))
        /\ \A k \in DOMAIN sr_steps :
               step_passed(sr_steps[k])
                   <=> RatioLess(Ratio(1, 2), sr_steps[k].score)
        /\ sr_props.passed_count + sr_props.failed_count = Len(sr_steps)

\* The scores of the steps of a result, in order.
StepScoresOf(r) == [k \in DOMAIN r.steps |-> r.steps[k].score]

\* Result i is that of the example scenario on an answer of n characters that
\* mentions water, with sources ['Federal Register'] and 4 documents.
ExampleResult(i, n) ==
    /\ ev_scenarios[i].query = ExampleQuery
    /\ ev_scenarios[i].thens = ExampleThens
    /\ ev_results[i].error = NoError
    /\ Len(ev_results[i].answer) = n
    /\ Contains(ev_results[i].answer, Word.water)
    /\ ev_results[i].sources_used = <<Text(<<Word.Federal, Word.Register>>)>>
    /\ ev_results[i].documents_retrieved = 4

\* C25 as stated: the example scenario scored against an answer of 80
\* characters without citations gives citation score 0.0, length score
\* 80/150, an overall score below 0.7, and does not pass.
C25_ShortAnswerFails ==
    \A i \in DOMAIN ev_results :
        (ExampleResult(i, 80) /\ ev_results[i].citations_count = 0) =>
            /\ ev_results[i].steps[2].score = ScoreZero
            /\ ev_results[i].steps[3].score = Ratio(80, 150)
            /\ BigLess(overall_score(ev_results[i]), Double(Ratio(7, 10)))
            /\ ~passed(ev_results[i])

\* C25 amended: the example scenario scored against an answer of 80
\* characters without citations gives the scores [1.0, 0.0, 80/150, 1.0,
\* 1.0], whose mean 53/75 = 0.7066... is not below 0.7: the scenario passes.
C25_ShortAnswerPasses ==
    \A i \in DOMAIN ev_results :
        (ExampleResult(i, 80) /\ ev_results[i].citations_count = 0) =>
            /\ StepScoresOf(ev_results[i]) =
                   <<ScoreOne, ScoreZero, Ratio(80, 150), ScoreOne, ScoreOne>>
            /\ overall_score(ev_results[i]) = Double(Ratio(53, 75))
            /\ BigLess(Double(Ratio(7, 10)), overall_score(ev_results[i]))
            /\ passed(ev_results[i])

\* run_all returned the result of the example scenario for the short answer
\* without citations.
C25_Witness ==
    /\ ev_pc = "returned"
    /\ \E i \in DOMAIN ev_results :
           /\ ExampleResult(i, 80)
           /\ ev_results[i].citations_count = 0
           /\ Len(ev_results[i].steps) = 5

\* C26: the example scenario scored against a 180-character answer that
\* mentions water and carries the markers [1][2][3], with sources ['Federal
\* Register'] and 4 documents, gives the step scores [1.0, 1.0, 1.0, 1.0,
\* 1.0], overall score 1.0, and passes.
C26_FullAnswerPasses ==
    \A i \in DOMAIN ev_results :
        (ExampleResult(i, 180) /\ Contains(ev_results[i].answer, Markers123)) =>
            /\ StepScoresOf(ev_results[i]) =
                   <<ScoreOne, ScoreOne, ScoreOne, ScoreOne, ScoreOne>>
            /\ overall_score(ev_results[i]) = Double(ScoreOne)
            /\ passed(ev_results[i])

\* run_all returned the result of the example scenario for the full answer,
\* which counted three citations.
C26_Witness ==
    /\ ev_pc = "returned"
    /\ \E i \in DOMAIN ev_results :
           /\ ExampleResult(i, 180)
           /\ Contains(ev_results[i].answer, Markers123)
           /\ ev_results[i].citations_count = 3
           /\ Len(ev_results[i].steps) = 5

\* match_step was called with one of the three count assertions and a whole
\* number, or no argument, as the target.
CountCall ==
    /\ ms_assertion # Text(<<Word.completion, Word.time, Word.should, Word.be,
                             Word.under>>)
    /\ ms_args # <<StrArg(Word.three)>>

\* The target t of the call (0 when the assertion carries no number) and the
\* actual a the step compares it with.
CountTarget == IF ms_args = <<>> THEN 0 ELSE ms_args[1].n

CountActual ==
    IF ms_assertion = Text(<<Word.there, Word.should, Word.be, Word.at,
                             Word.least>>)
    THEN ev_output.citations_count
    ELSE IF ms_assertion = Text(<<Word.the, Word.answer, Word.should, Word.be,
                                  Word.at, Word.least>>)
    THEN Len(ev_output.answer)
    ELSE ev_output.documents_retrieved

\* C27: for the count steps (citations, answer length, documents retrieved)
\* with target t and actual a >= 0: when t > 0 the score is min(a/t, 1), lies
\* in [0,1] and is 1 exactly when a >= t, also as a float; when t <= 0 the
\* score is 1.0 and the step returns without dividing.
C27_ThresholdScores ==
    (ms_pc # "call" /\ CountCall) =>
        /\ ms_pc = "returned"
        /\ ms_ret.result.kind = "StepResult"
        /\ LET q == ms_ret.result.score
               t == CountTarget
               a == CountActual
           IN IF t > 0
              THEN /\ a < t => q.num * t = a * q.den
                   /\ a >= t => q = ScoreOne
                   /\ RatioLessEq(ScoreZero, q) /\ RatioLessEq(q, ScoreOne)
                   /\ q = ScoreOne <=> a >= t
                   /\ Double(q) = Double(ScoreOne) <=> a >= t
              ELSE q = ScoreOne

\* The citations step returned 2/3 for 2 citations against a target of 3.
C27_Witness ==
    /\ ms_pc = "returned"
    /\ ms_ret.executed = <<"_min_citations">>
    /\ CountTarget = 3
    /\ CountActual = 2
    /\ ms_ret.result.score = Ratio(2, 3)

\* The score the step "completion time should be under" gives the elapsed
\* time e against the threshold of the call.
ScoreAfter(e) ==
    max_time(ms_assertion, ms_args,
             [ev_output EXCEPT !.completion_time = e]).score

\* The elapsed time a tenth of a second after e.
TenthLater(e) == Ratio(e.num * 10 + e.den, e.den * 10)

\* The properties of a latency score q for the elapsed time e and the
\* threshold t > 0, next to the score other(e2) of the next elapsed time:
\* the elapsed times are a chain of tenths, so a score that never rises from
\* one to the next never rises at all.
LatencyProperties(q, e, t, other(_)) ==
    /\ TenthLater(e) \in Elapseds => RatioLessEq(other(TenthLater(e)), q)
    /\ e = Ratio(0, 1) => q = ScoreOne
    /\ e = Ratio(t, 1) => q = Ratio(1, 2)
    /\ RatioLessEq(Ratio(2 * t, 1), e) => q = ScoreZero
    /\ RatioLessEq(ScoreZero, q) /\ RatioLessEq(q, ScoreOne)

\* C28: for a latency threshold t > 0 the score of "completion time should
\* be under", and that of check_latency, rounded to two decimals, is
\* non-increasing in the elapsed time, 1.0 at elapsed 0, 0.5 at elapsed t,
\* 0.0 for every elapsed >= 2t, and always in [0,1].
C28_LatencyScore ==
    /\ (/\ ms_pc # "call"
        /\ ms_assertion = Text(<<Word.completion, Word.time, Word.should,
                                 Word.be, Word.under>>)
        /\ ms_args # <<>> /\ ms_args[1].kind = "int" /\ ms_args[1].n > 0) =>
           /\ ms_pc = "returned"
           /\ ms_ret.executed = <<"_max_time">>
           /\ LatencyProperties(ms_ret.result.score,
                                ev_output.completion_time, ms_args[1].n,
                                ScoreAfter)
    /\ (cl_ret # NotCalled /\ cl_ret.threshold > 0) =>
           LatencyProperties(cl_ret.ret.score, ev_output.completion_time,
                             cl_ret.threshold,
                             LAMBDA e : check_latency(e, cl_ret.threshold).score)

\* The step returned 0.83 for 1 s against a threshold of 3 s, and
\* check_latency 0.98 for the same second against a threshold of 2 s.
C28_Witness ==
    /\ ms_pc = "returned"
    /\ ms_ret.executed = <<"_max_time">>
    /\ ms_args = <<IntArg(3)>>
    /\ ev_output.completion_time = Ratio(1, 1)
    /\ ms_ret.result.score = Ratio(83, 100)
    /\ cl_ret # NotCalled
    /\ cl_ret.threshold = 2
    /\ cl_ret.ret = [pass |-> TRUE, score |-> Ratio(3, 4)]

\* The numbers the markers of the final answer cite.
Cited == {ci_tokens[k].number : k \in DOMAIN ci_tokens} \ {NoNumber}

\* The citation list of the numbers N: one entry for each, in ascending
\* order, the number written in decimal.
ListOf(cs, N) ==
    /\ Len(cs) = Cardinality(N)
    /\ {DigitsValue(cs[k].number) : k \in DOMAIN cs} = N
    /\ \A k \in DOMAIN cs :
           /\ cs[k].number = IntChars(DigitsValue(cs[k].number))
           /\ k < Len(cs) =>
                  DigitsValue(cs[k].number) < DigitsValue(cs[k + 1].number)

\* C29: extract_citations returns one entry per distinct number that appears
\* as a marker [n] in the answer, in ascending numeric order, each as a
\* string, whatever the order and the repetition of the markers ("[2] text
\* [1] [2]" gives ['1', '2']); extracting again from a text rebuilt from
\* the result returns the same list; and each pattern's ResearchResult
\* carries the citations of its final answer only.
C29_CitationsOfFinalAnswer ==
    /\ extract_citations(<<"[", "2", "]">> \o <<" ">> \o Word.text
                         \o <<" ", "[", "1", "]", " ", "[", "2", "]">>)
           = <<[number |-> <<"1">>], [number |-> <<"2">>]>>
    /\ ci_result # NotReturned =>
           /\ ci_result.answer = ci_answer
           /\ ListOf(ci_result.citations, Cited)
    /\ ci_again # NotReturned => ci_again.citations = ci_result.citations

\* A pattern returned the citations ['1', '10'] for the answer
\* "[10][01][1]", made from findings that cite [9], and extracting again from
\* the rebuilt text gave the same list.
C29_Witness ==
    /\ ci_again # NotReturned
    /\ ci_findings # <<>>
    /\ ci_answer = <<"[", "1", "0", "]", "[", "0", "1", "]", "[", "1", "]">>
    /\ ci_result.citations = <<[number |-> <<"1">>], [number |-> <<"1", "0">>]>>

\* The results that did not error, and the results whose overall score
\* reaches the threshold.
NotErrored == SelectSeq(sm_results, LAMBDA r : r.error = NoError)

ReachThreshold ==
    SelectSeq(sm_results,
              LAMBDA r : ~BigLess(overall_score(r), Double(Ratio(7, 10))))

\* The mean (as the floats give it) of overall_score over the results that
\* did not error, 0.0 when there is none.
MeanOfNotErrored ==
    IF NotErrored = <<>> THEN BigZero
    ELSE FloatDiv(SumOverall(NotErrored), Len(NotErrored))

\* C30: the overall score of the scorecard and of the saved summary is the
\* mean of overall_score over the scenarios that did not error (0.0 when all
\* errored), so that errored scenarios never lower it; the pass count is the
\* number of scenarios with overall_score >= 0.7 among all results; no
\* errored scenario counts as passed; and passed + failed = total in the
\* saved summary.
C30_SummaryFigures ==
    /\ sm_printed # NotWritten =>
           /\ sm_printed.overall = RoundTo(MeanOfNotErrored, 100)
           /\ sm_printed.passed = Len(ReachThreshold)
    /\ sm_saved # NotWritten =>
           /\ sm_saved.overall_score = RoundTo(MeanOfNotErrored, 1000)
           /\ sm_saved.passed = Len(ReachThreshold)
           /\ sm_saved.passed + sm_saved.failed = sm_saved.total
           /\ sm_saved.total = Len(sm_results)
    /\ \A i \in DOMAIN sm_results :
           sm_results[i].error # NoError => ~passed(sm_results[i])

\* Research() has come to its end, with a result or with an exception.
Ended == pc \in {"done", "raised"}

\* The feedback patterns and the Hybrid P2P pattern under weak fairness of
\* their steps: every backend invocation returns, so that a research() that
\* can take a step takes one.
SpecReturns == Spec /\ WF_vars(Next)

SpecHybridReturns == SpecHybrid /\ WF_vars(NextHybrid)

\* Every research() comes to its end.
ResearchTerminates == <>Ended

\* C31: the number of run_agent invocations of one research() is bounded:
\* Single exactly 1, Researcher-Critic at most 6, Multi-Agent at most 7,
\* Plan-and-Execute at most 10, and for N data sources Supervisor-Worker at
\* most 3 * (N + 2) + 1 and Hybrid P2P exactly 2N + 1.
C31_InvocationBounds ==
    /\ arch = "single" => Len(calls) <= 1 /\ (Ended => Len(calls) = 1)
    /\ arch = "rc" => Len(calls) <= 6
    /\ arch = "ma" => Len(calls) <= 7
    /\ arch = "pe" => Len(calls) <= 10
    /\ arch = "sw" => Len(calls) <= 3 * (NumSources + 2) + 1
    /\ arch = "hp" =>
          /\ Len(calls) <= 2 * NumSources + 1
          /\ Ended => Len(calls) = 2 * NumSources + 1

\* C32: with several orchestrators sharing one manager, each with its own
\* search function under the same tool name, a tool call made during
\* run_agent(tool_set=T) for a name of T runs the function of T, so that the
\* search is recorded in the tracker of the orchestrator that is running and
\* in no tracker of another orchestrator.
C32_RunsOwnFunction ==
    /\ (looked.name \in DOMAIN tool_set /\ tool_set # NoToolSet) =>
          /\ looked.st = "found"
          /\ looked.fn = tool_set[looked.name]
          /\ tool_dispatch[looked.name] = tool_set[looked.name]
    /\ \A n \in DOMAIN tool_set :
          tool_set # NoToolSet => tool_dispatch[n] = tool_set[n]
    /\ \A r \in dp_recorded : r.offered => r.tracker = r.running

\* C32 witness: the second orchestrator runs with its own function under a
\* name the first orchestrator registered first; the call found the second
\* orchestrator's function and recorded in its tracker.
C32_Witness ==
    /\ tool_set # NoToolSet
    /\ looked.name \in DOMAIN tool_set
    /\ first_fn[looked.name] = 1
    /\ tool_set[looked.name] = 2
    /\ looked.fn = 2
    /\ [tracker |-> 2, running |-> 2, offered |-> TRUE] \in dp_recorded

\* A critique that parses as a JSON object and holds neither quality_score
\* nor is_sufficient.
LacksBoth(c) == c.kind = "object" /\ c.qs = "missing" /\ c.suff = "missing"

\* C33: a critique object without quality_score and without is_sufficient
\* starts another round in Researcher-Critic and Multi-Agent while rounds
\* remain (the members default to 0 and false), and ends the loop at that
\* round, with no replan, in Supervisor-Worker and Plan-and-Execute (they
\* default to 1.0 and true).
C33_MissingFieldDefaults ==
    (AfterCritic /\ LacksBoth(critique)) =>
        LET r == calls[Len(calls)].rnd
        IN  /\ (arch \in {"rc", "ma"} /\ r < 3) =>
                  /\ pc = "researcher"
                  /\ rnd = r + 1
            /\ arch \in {"sw", "pe"} =>
                  /\ pc = "synthesizer"
                  /\ rnd = r
                  /\ arch = "pe" => replans = r - 1

\* C34: at the end of every Plan-and-Execute research() the number of
\* Researcher invocations and the number of Planner invocations both equal
\* replans + 1; every plan the Planner produces, initial or revised, is
\* executed by the Researcher, which is the next invocation and is given that
\* plan, before the Synthesizer runs; no revised plan is left unexecuted.
C34_EveryPlanExecuted ==
    arch = "pe" =>
        /\ Ended =>
              /\ Invoked("researcher", 0) = replans + 1
              /\ Invoked("planner", 0) = replans + 1
        /\ \A i \in DOMAIN calls :
              calls[i].role = "planner" =>
                  IF i = Len(calls)
                  THEN pc = "researcher" /\ plan = calls[i].out
                  ELSE /\ calls[i + 1].role = "researcher"
                       /\ calls[i + 1].uses = {calls[i].out}
        /\ \A k \in DOMAIN calls :
              calls[k].role = "synthesizer" =>
                  /\ k = Len(calls)
                  /\ calls[k].uses = {calls[k - 2].out}
                  /\ calls[k - 2].role = "researcher"
                  /\ calls[k - 2].uses = {plan}

\* C34 witness: a Plan-and-Execute research() with two replans has returned.
C34_Witness ==
    /\ arch = "pe" /\ pc = "done" /\ replans = 2
    /\ Invoked("planner", 0) = 3
    /\ Invoked("researcher", 0) = 3

\* C35: Researcher-Critic returns the Researcher output of the last round
\* run, whatever the scores of the rounds were; when the third round too is
\* judged insufficient, research() returns the round-3 answer as a
\* ResearchResult with iterations = 3 and raises nothing.
C35_LastRoundAnswer ==
    arch = "rc" =>
        /\ pc = "done" =>
              /\ result.returned
              /\ calls[Len(calls)].role = "critic"
              /\ result.answer = calls[Len(calls) - 1].out
              /\ result.count = calls[Len(calls)].rnd
        /\ (AfterCritic /\ Len(calls) = 6 /\ ReadsInsufficient(critique)) =>
              /\ pc = "done"
              /\ exc = "none"
              /\ result = ResearchResult(Txt("researcher", 3, 0), 3, 0)

\* The searches made on tracker t since its last reset.
SearchesOn(t) == SelectSeq(made, LAMBDA c : c.tracker = t)

\* The names of a list of searches in the order of their first calls.
RECURSIVE FirstCalls(_)
FirstCalls(cs) ==
    IF cs = <<>> THEN <<>>
    ELSE LET before == FirstCalls(SubSeq(cs, 1, Len(cs) - 1))
             name == cs[Len(cs)].fn_name
         IN  IF \E i \in DOMAIN before : before[i] = name
             THEN before ELSE Append(before, name)

\* The documents of the searches of a list whose source returned no error.
RECURSIVE DocumentsOf(_)
DocumentsOf(cs) ==
    IF cs = <<>> THEN 0
    ELSE DocumentsOf(Tail(cs))
         + (IF Head(cs).error = NoSourceError THEN Head(cs).documents ELSE 0)

\* C36: a search whose data source returns an error leaves
\* documents_retrieved unchanged, whatever documents the source had collected,
\* and still adds the tool's name to sources_called if absent; a successful
\* search adds the number of documents returned; no name is added twice, so
\* that sources_called holds the names in the order of their first calls.
C36_SearchesRecorded ==
    \A t \in DOMAIN documents_retrieved :
        /\ documents_retrieved[t] = DocumentsOf(SearchesOn(t))
        /\ lists[Own(t)] = FirstCalls(SearchesOn(t))

\* The entry of the registry that match_step picks for an assertion.
EntryOf(t) ==
    match_step(t.assertion, t.args, NoOutput, NotSupplied, NotSupplied).entry

\* The judge or the evaluators the entry e of the registry is scored by; none
\* for an entry that needs no judge and for an unmatched assertion.
JudgeOf(e) ==
    IF e = 0 THEN NotSupplied
    ELSE IF STEP_DEFS[e].is_llm THEN ev_judge
    ELSE IF STEP_DEFS[e].is_azure_eval THEN ev_azure
    ELSE NotSupplied

IsJudged(e) == e # 0 /\ (STEP_DEFS[e].is_llm \/ STEP_DEFS[e].is_azure_eval)

\* The steps scored so far for the assertions thens of a scenario whose
\* research gave the output o: a judged step whose judge failed scores 0.0
\* with the error as its detail, a judged step without judge scores 1.0, and
\* a step that needs no judge is scored as without any judge.
FailedJudgeScoresZero(steps, thens, o) ==
    \A k \in DOMAIN steps :
        LET e == EntryOf(thens[k])
        IN /\ steps[k].kind = "StepResult"
           /\ IsJudged(e) /\ JudgeOf(e).failure # "none" =>
                 /\ steps[k].score = ScoreZero
                 /\ steps[k].detail \in {"Judge error", "error"}
                 /\ steps[k].is_llm_judged
                 /\ ~step_passed(steps[k])
           /\ IsJudged(e) /\ ~JudgeOf(e).configured =>
                 steps[k].score = ScoreOne /\ step_passed(steps[k])
           /\ ~IsJudged(e) =>
                 steps[k] = IF e = 0 THEN NoStepDefinition
                            ELSE StepFunction(STEP_DEFS[e].fn,
                                     thens[k].assertion, thens[k].args, o,
                                     NotSupplied, NotSupplied)

\* C37: when a judge or the evaluators are configured but fail (the backend
\* call raises or the response cannot be parsed), the judged step scores 0.0
\* with the error in its detail, no exception leaves match_step and the
\* remaining assertions are still scored: the scenario's result holds one
\* step per assertion. A failing judge fails the step (0.0) and an absent
\* judge passes it (1.0).
C37_FailingJudgeScoresZero ==
    /\ \A i \in DOMAIN ev_results :
           ev_results[i].error = NoError =>
               /\ Len(ev_results[i].steps) = Len(ev_scenarios[i].thens)
               /\ FailedJudgeScoresZero(ev_results[i].steps,
                                        ev_scenarios[i].thens,
                                        [ev_results[i] EXCEPT !.steps = <<>>])
    /\ ev_pc \in {"scoring", "raised"} =>
           /\ FailedJudgeScoresZero(ev_steps, Current.thens, ev_output)
           /\ Len(ev_steps) < Len(Current.thens)
              /\ IsJudged(EntryOf(Current.thens[Len(ev_steps) + 1]))
                  => NextThen.kind = "StepResult"
    /\ ev_pc = "raised" =>
           ~IsJudged(EntryOf(Current.thens[Len(ev_steps) + 1]))

\* run_all returned a scenario whose LLM-judged first assertion scored 0.0
\* because the judge's response could not be parsed and whose second
\* assertion was scored 1.0 after it, the Azure evaluators being absent.
C37_Witness ==
    /\ ev_pc = "returned"
    /\ ev_judge = LLMJudgeFails("unparseable")
    /\ ~ev_azure.configured
    /\ \E i \in DOMAIN ev_results :
           /\ ev_scenarios[i].thens = <<JudgedThens.quality, JudgedThens.mention>>
           /\ Len(ev_results[i].steps) = 2
           /\ ev_results[i].steps[1].score = ScoreZero
           /\ ev_results[i].steps[1].detail = "Judge error"
           /\ ev_results[i].steps[2].score = ScoreOne

\* The text t, or its form with "_" for " " and without ".", occurs in the
\* candidate c, whatever the case of t and c.
Holds(c, t) ==
    \/ Contains(Lower(c), Lower(t))
    \/ Contains(Lower(c), safe_name(t))

\* The target of the "sources should include" assertion scored.
Target == IF ms_args = <<>> THEN <<>> ELSE Str(ms_args[1])

\* C38: for each built-in data source (GovInfo, Federal Register, Data.gov),
\* if sources_used holds the tool name _make_search_fn built for it
\* (search_govinfo, search_federal_register, search_datagov), the assertion
\* "sources should include <display name>" scores 1.0; the assertion scores
\* 0.0 when no candidate holds the target or its normalized form, compared
\* without regard to case.
C38_SourcesIncludeToolName ==
    ms_pc = "returned" /\ ms_ret.executed = <<"_sources_include">> =>
        /\ ms_ret.result.kind = "StepResult"
        /\ \A name \in BuiltInNames :
               /\ Target = name
               /\ \E k \in DOMAIN ev_output.sources_used :
                      ev_output.sources_used[k] = ToolName(name)
               => ms_ret.result.score = ScoreOne
        /\ (\A k \in DOMAIN ev_output.sources_used :
                ~Holds(ev_output.sources_used[k], Target))
               => ms_ret.result.score = ScoreZero

\* "sources should include" "Data.gov" scored 1.0 on a run whose only search
\* was search_datagov.
C38_Witness ==
    /\ ms_pc = "returned"
    /\ ms_ret.executed = <<"_sources_include">>
    /\ ms_args = <<StrArg(Word.Data_gov)>>
    /\ ev_output.sources_used =
           <<Text(<<Word.search_>>) \o <<"d","a","t","a","g","o","v">>>>
    /\ ms_ret.result.score = ScoreOne

\* The cleanup() calls made without an agent id.
WholeCleanups == {i \in DOMAIN mg_log : mg_log[i].agent_id = NoAgentId}

\* C40: FoundryAgentManager.cleanup() with keep_agents false issues a delete
\* for every tracked agent, does not raise when a delete fails, and leaves
\* the list of tracked agents empty (an agent whose delete failed is no
\* longer tracked); with keep_agents true it issues no delete and leaves
\* the list unchanged; leaving the manager's context always calls
\* cleanup(), also when the body raised.
C40_CleanupEmptiesTracked ==
    /\ \A i \in WholeCleanups :
         LET c == mg_log[i]
         IN /\ ~c.raised
            /\ ~c.keep =>
                  /\ \A k \in DOMAIN c.before :
                         \E d \in DOMAIN c.deletes :
                             c.deletes[d].agent_name = c.before[k]
                  /\ c.after = <<>>
            /\ c.keep => c.deletes = <<>> /\ c.after = c.before
    /\ mg_pc \in {"left", "raised"} =>
         /\ mg_log # <<>>
         /\ mg_log[Len(mg_log)].on_exit
         /\ mg_log[Len(mg_log)].agent_id = NoAgentId
         /\ mg_created = mg_log[Len(mg_log)].after
         /\ ~mg_keep => mg_created = <<>>

\* The body raised with two agents tracked; the cleanup of __exit__ asked
\* for both deletes, the first of which failed, and no agent is tracked.
C40_Witness ==
    /\ mg_pc = "raised"
    /\ ~mg_keep
    /\ LET c == mg_log[Len(mg_log)]
       IN /\ c.on_exit
          /\ Len(c.before) = 2
          /\ Len(c.deletes) = 2
          /\ c.deletes[1].failed
          /\ c.after = <<>>

\* The markers of arch_key among the status files.
Own_markers == {f.kind : f \in {g \in ra_files : g.arch = ra_arch}}

\* C39: run_architecture keeps its status markers consistent: the markers a
\* previous run of the same architecture left are removed before the new
\* in_progress marker is written; while the run executes only in_progress
\* exists; after run_architecture returned, in_progress is absent and
\* exactly one of {arch}_complete.json (the run finished without exception)
\* and {arch}_failed.json (an exception occurred) exists. In eval mode
\* errored scenarios alone do not produce the failed marker.
C39_MarkersConsistent ==
    /\ ra_pc = "cleaned" => Own_markers = {}
    /\ ra_pc \in {"try", "with"} => Own_markers = {"in_progress"}
    /\ ra_pc = "returned" =>
         /\ Own_markers = IF ra_ret.success THEN {"complete"} ELSE {"failed"}
         /\ ra_ret.success <=> mg_pc = "left"
         /\ ra_ret.mode = "eval" /\ mg_pc = "left" =>
                Own_markers = {"complete"}

\* An eval run over markers of an earlier failed run returned with two
\* errored scenarios and wrote the complete marker.
C39_Witness ==
    /\ ra_pc = "returned"
    /\ ra_mode = "eval"
    /\ ra_ret.success
    /\ ra_ret.failed = 2
    /\ ra_ret.successful = 0
    /\ Own_markers = {"complete"}

====
